---- MODULE Spec2Model ----
(***************************************************************************)
(* LLM Connector: tier resolution with fallback (TierResolver), the model  *)
(* registry (ModelRegistry), the deduplicating NotificationManager and the *)
(* complete/stream orchestration of the plugin API (main.ts createAPI).    *)
(***************************************************************************)
EXTENDS Integers, Sequences, FiniteSets, TLC

\* ------------------------------------------------------------------------
\* Bounds of the model
\* ------------------------------------------------------------------------
\* how many consecutive identical resolve calls are followed
MaxRepeat == 2
\* how many notify calls the notification history follows
MaxNotify == 2
\* the longest array handed to updateModels
MaxModels == 3

\* ------------------------------------------------------------------------
\* Types (types.ts)
\* ------------------------------------------------------------------------
PerformanceTier == {"fast", "balanced", "advanced", "thinking", "code", "embedding"}

FallbackReason ==
    {"tier_not_configured", "provider_error", "rate_limit", "timeout", "model_unavailable"}

NotificationMode == {"console", "notice", "both", "none"}

\* an optional value: undefined is the empty sequence, a present value v is <<v>>
undefined == << >>
Some(v) == << v >>

\* the plugins that call the API
Callers == {"plugin"}

\* the plugins of the specifications with calls in flight side by side
ConcurrentCallers == {"plugin", "other"}

\* the assignments the tier selector offers in the model ("provider:model" entries)
ModelAssignment ==
    { [provider |-> "ollama", model |-> "llama3.2"],
      [provider |-> "openai", model |-> "gpt-4o"] }

\* the values the selector callback can store into settings.tiers[tier]
TierValues == {undefined} \cup { Some(a) : a \in ModelAssignment }

\* a JavaScript truthiness test of an optional string
Truthy(opt) == opt # undefined /\ opt[1] # ""

\* the provider adapters registerProviders registers, in registration order
PROVIDER_IDS == << "ollama", "openrouter", "openai", "anthropic" >>

Registered == { PROVIDER_IDS[i] : i \in 1..Len(PROVIDER_IDS) }

\* a ProviderConfig as far as the plugin reads it: the enabled flag and
\* whether baseUrl and apiKey hold a value
DEFAULT_PROVIDER_CONFIGS ==
    [ p \in Registered |-> [ enabled |-> FALSE, baseUrl |-> TRUE, apiKey |-> FALSE ] ]

\* settings.ts DEFAULT_SETTINGS, with the provider configurations
\* registerProviders adds for a provider that has none
DEFAULT_SETTINGS ==
    [ providers |-> DEFAULT_PROVIDER_CONFIGS,
      tiers |-> [t \in PerformanceTier |-> undefined],
      defaultTier |-> "balanced",
      fallbackNotification |-> "console",
      showOncePerSession |-> TRUE,
      \* the cached-startup version's persisted model cache (absent at first)
      modelCache |-> undefined ]

\* a Model record
Model(id, name, provider, tags, capabilities, contextWindow) ==
    [ id |-> id, name |-> name, provider |-> provider, tags |-> tags,
      capabilities |-> capabilities, contextWindow |-> contextWindow ]

\* what each adapter's listModels returns when the provider answers
ProviderCatalog ==
    [ ollama     |-> << Model("llama3.2", "Llama 3.2", "ollama",
                              {"fast", "chat"}, {"text"}, Some(8192)) >>,
      openrouter |-> << >>,
      openai     |-> << Model("gpt-4o", "GPT-4o", "openai",
                              {"smart", "chat", "multimodal"}, {"text", "vision"},
                              Some(128000)) >>,
      anthropic  |-> << >> ]

\* ------------------------------------------------------------------------
\* State
\* ------------------------------------------------------------------------
VARIABLES
    settings,           \* plugin.settings (the object the TierResolver references)
    resolution,         \* what the most recent TierResolver.resolve call produced
    consecutive,        \* [tier, count]: resolve(tier) calls in a row since the last change
    notifiedFallbacks,  \* NotificationManager.notifiedFallbacks (the seen-set)
    mode,               \* NotificationManager.mode
    oncePerSession,     \* NotificationManager.oncePerSession
    log,                \* the notify and clearCache calls so far, with what each emitted
    models,             \* ModelRegistry.models
    lookup,             \* the most recent registry or provider operation and its answer
    calls,              \* per caller: its latest complete call
    providerManager,    \* ProviderManager: the ids with a loaded config, the adapters
    pending             \* the settings-tab handler suspended in its saveSettings, if any

resolverVars == << resolution, consecutive >>
notificationVars == << notifiedFallbacks, mode, oncePerSession, log >>
registryVars == << models, lookup >>
providerVars == << providerManager, pending >>
vars == << settings, resolution, consecutive, notifiedFallbacks, mode, oncePerSession,
           log, models, lookup, calls, providerManager, pending >>

\* ------------------------------------------------------------------------
\* TierResolver (models/TierResolver)
\* ------------------------------------------------------------------------
\* a chain table in which embedding falls back to the chat tiers
FALLBACK_CHAINS_embeddingFallsBack ==
    [ fast      |-> << "fast", "balanced", "advanced" >>,
      balanced  |-> << "balanced", "advanced", "fast" >>,
      advanced  |-> << "advanced", "balanced", "fast" >>,
      thinking  |-> << "thinking", "advanced", "balanced", "fast" >>,
      code      |-> << "code", "advanced", "balanced", "fast" >>,
      embedding |-> << "embedding", "advanced", "balanced", "fast" >> ]

FALLBACK_CHAINS ==
    [ fast      |-> << "fast", "balanced", "advanced" >>,
      balanced  |-> << "balanced", "advanced", "fast" >>,
      advanced  |-> << "advanced", "balanced", "fast" >>,
      thinking  |-> << "thinking", "advanced", "balanced", "fast" >>,
      code      |-> << "code", "advanced", "balanced", "fast" >>,
      embedding |-> << "embedding" >> ]

\* Array.prototype.join
RECURSIVE join(_, _)
join(arr, sep) ==
    IF Len(arr) = 0 THEN ""
    ELSE IF Len(arr) = 1 THEN arr[1]
    ELSE arr[1] \o sep \o join(Tail(arr), sep)

\* the value a successful resolve returns
TierResolution(assignment, tier, i, requestedTier) ==
    [ ok |-> TRUE,
      assignment |-> Some(assignment),
      tier |-> tier,
      fallbackOccurred |-> (i > 1),
      fallbackReason |-> IF i > 1 THEN "tier_not_configured" ELSE "undefined",
      requestedTier |-> requestedTier,
      message |-> "" ]

\* an Error that names the requested tier only
ResolveError_namesRequestedOnly(tier, chain) ==
    [ ok |-> FALSE,
      assignment |-> undefined,
      tier |-> "undefined",
      fallbackOccurred |-> FALSE,
      fallbackReason |-> "undefined",
      requestedTier |-> tier,
      message |-> "No model configured for tier \"" \o tier \o "\" or any fallback tier. "
                  \o "Please configure at least one of: " \o tier ]

\* the Error a failing resolve throws
ResolveError(tier, chain) ==
    [ ok |-> FALSE,
      assignment |-> undefined,
      tier |-> "undefined",
      fallbackOccurred |-> FALSE,
      fallbackReason |-> "undefined",
      requestedTier |-> tier,
      message |-> "No model configured for tier \"" \o tier \o "\" or any fallback tier. "
                  \o "Please configure at least one of: " \o join(chain, ", ") ]

\* the for loop of resolve, from chain index i (1-based here)
RECURSIVE resolveLoop(_, _, _, _)
resolveLoop(tierSettings, tier, chain, i) ==
    IF i > Len(chain) THEN ResolveError(tier, chain)
    ELSE LET currentTier == chain[i]
             assignment == tierSettings[currentTier]
         IN  IF assignment # undefined
             THEN TierResolution(assignment[1], currentTier, i, tier)
             ELSE resolveLoop(tierSettings, tier, chain, i + 1)

\* a loop that prefers the last configured tier of the chain to the first
RECURSIVE resolveLoop_lastConfigured(_, _, _, _)
resolveLoop_lastConfigured(tierSettings, tier, chain, i) ==
    IF i < 1 THEN ResolveError(tier, chain)
    ELSE LET currentTier == chain[i]
             assignment == tierSettings[currentTier]
         IN  IF assignment # undefined
             THEN TierResolution(assignment[1], currentTier, i, tier)
             ELSE resolveLoop_lastConfigured(tierSettings, tier, chain, i - 1)

resolve_lastConfigured(tierSettings, tier) ==
    resolveLoop_lastConfigured(tierSettings, tier, FALLBACK_CHAINS[tier],
                               Len(FALLBACK_CHAINS[tier]))

\* a resolve that tries the embedding tier when the chain is exhausted
resolve_embeddingLast(tierSettings, tier) ==
    resolveLoop(tierSettings, tier, FALLBACK_CHAINS[tier] \o << "embedding" >>, 1)

resolve(tierSettings, tier) ==
    IF tier \notin DOMAIN FALLBACK_CHAINS
    THEN [ ok |-> FALSE, assignment |-> undefined, tier |-> "undefined",
           fallbackOccurred |-> FALSE, fallbackReason |-> "undefined",
           requestedTier |-> tier, message |-> "Invalid tier: " \o tier ]
    ELSE resolveLoop(tierSettings, tier, FALLBACK_CHAINS[tier], 1)

NoResolution ==
    [ ok |-> FALSE, assignment |-> undefined, tier |-> "undefined",
      fallbackOccurred |-> FALSE, fallbackReason |-> "undefined",
      requestedTier |-> "undefined", message |-> "" ]

\* a resolve that, on a fallback, stores the assignment it found under the
\* requested tier
Resolve_stickyFallback(tier) ==
    /\ ~(consecutive.tier = tier /\ consecutive.count >= MaxRepeat)
    /\ resolution' = resolve(settings.tiers, tier)
    /\ consecutive' = [ tier |-> tier,
                        count |-> IF consecutive.tier = tier
                                  THEN consecutive.count + 1 ELSE 1 ]
    /\ settings' = IF resolution'.ok /\ resolution'.fallbackOccurred
                   THEN [settings EXCEPT !.tiers[tier] = resolution'.assignment]
                   ELSE settings
    /\ UNCHANGED << notificationVars, registryVars, calls, providerVars >>

\* a caller invokes tierResolver.resolve(tier)
Resolve(tier) ==
    /\ ~(consecutive.tier = tier /\ consecutive.count >= MaxRepeat)
    /\ resolution' = resolve(settings.tiers, tier)
    /\ consecutive' = [ tier |-> tier,
                        count |-> IF consecutive.tier = tier
                                  THEN consecutive.count + 1 ELSE 1 ]
    /\ UNCHANGED << settings, notificationVars, registryVars, calls, providerVars >>

\* ------------------------------------------------------------------------
\* NotificationManager (utils/NotificationManager)
\* ------------------------------------------------------------------------
\* the channels a mode writes to (the switch on this.mode)
Channels(m) ==
    CASE m = "console" -> {"console"}
      [] m = "notice"  -> {"notice"}
      [] m = "both"    -> {"console", "notice"}
      [] m = "none"    -> {}

\* a fallback key that leaves the reason out
FallbackKey_withoutReason(requestedTier, actualTier, reason) ==
    requestedTier \o "->" \o actualTier

FallbackKey(requestedTier, actualTier, reason) ==
    requestedTier \o "->" \o actualTier \o ":" \o reason

ProviderErrorKey(provider, model) ==
    "provider-error:" \o provider \o ":" \o model

formatFallbackReason(reason) ==
    CASE reason = "tier_not_configured" -> "tier not configured"
      [] reason = "provider_error"      -> "provider error"
      [] reason = "rate_limit"          -> "rate limited"
      [] reason = "timeout"             -> "timeout"
      [] reason = "model_unavailable"   -> "model unavailable"
      [] OTHER                          -> "unknown reason"

formatFallbackMessage(requestedTier, actualTier, reason) ==
    "Tier fallback: \"" \o requestedTier \o "\" -> \"" \o actualTier
        \o "\" (" \o formatFallbackReason(reason) \o ")"

\* one entry of the history: a notify call, suppressed or not, with the
\* channels it wrote to, or a clearCache call
LogEntry(op, key, suppressed, channels, message) ==
    [ op |-> op, key |-> key, mode |-> mode, oncePerSession |-> oncePerSession,
      suppressed |-> suppressed, channels |-> channels, message |-> message ]

NotifyCalls(history) ==
    { i \in 1..Len(history) : history[i].op # "clearCache" }

\* a notify that never marks its key as notified
Notify_neverMarks(op, key, message) ==
    /\ Cardinality(NotifyCalls(log)) < MaxNotify
    /\ IF oncePerSession /\ key \in notifiedFallbacks
       THEN log' = Append(log, LogEntry(op, key, TRUE, {}, ""))
       ELSE log' = Append(log, LogEntry(op, key, FALSE, Channels(mode), message))
    /\ UNCHANGED << notifiedFallbacks, mode, oncePerSession >>

\* a notify that marks its key only when it writes to a channel with
\* deduplication enabled
Notify_marksOnlyWhenEmitting(op, key, message) ==
    /\ Cardinality(NotifyCalls(log)) < MaxNotify
    /\ IF oncePerSession /\ key \in notifiedFallbacks
       THEN /\ log' = Append(log, LogEntry(op, key, TRUE, {}, ""))
            /\ UNCHANGED notifiedFallbacks
       ELSE /\ notifiedFallbacks' = IF oncePerSession /\ Channels(mode) # {}
                                    THEN notifiedFallbacks \cup {key}
                                    ELSE notifiedFallbacks
            /\ log' = Append(log, LogEntry(op, key, FALSE, Channels(mode), message))
    /\ UNCHANGED << mode, oncePerSession >>

\* the body shared by notifyFallback and notifyProviderError: the seen-check,
\* the marking of the key and the switch on the mode
Notify(op, key, message) ==
    /\ Cardinality(NotifyCalls(log)) < MaxNotify
    /\ IF oncePerSession /\ key \in notifiedFallbacks
       THEN /\ log' = Append(log, LogEntry(op, key, TRUE, {}, ""))
            /\ UNCHANGED notifiedFallbacks
       ELSE /\ notifiedFallbacks' = notifiedFallbacks \cup {key}
            /\ log' = Append(log, LogEntry(op, key, FALSE, Channels(mode), message))
    /\ UNCHANGED << mode, oncePerSession >>

notifyFallback(requestedTier, actualTier, reason) ==
    Notify("notifyFallback",
           FallbackKey(requestedTier, actualTier, reason),
           formatFallbackMessage(requestedTier, actualTier, reason))

notifyProviderError(provider, model, error) ==
    Notify("notifyProviderError",
           ProviderErrorKey(provider, model),
           "Provider error: " \o provider \o "/" \o model \o " - " \o error)

\* a clearCache that leaves the seen-set as it is
clearCache_keepsSeenSet ==
    /\ log' = IF log = << >> \/ log[Len(log)].op = "clearCache"
              THEN log
              ELSE Append(log, [ op |-> "clearCache", key |-> "", mode |-> "none",
                                 oncePerSession |-> FALSE, suppressed |-> FALSE,
                                 channels |-> {}, message |-> "" ])
    /\ UNCHANGED << notifiedFallbacks, mode, oncePerSession >>

\* the history keeps one clearCache entry per run of clearCache calls
clearCache ==
    /\ notifiedFallbacks' = {}
    /\ log' = IF log = << >> \/ log[Len(log)].op = "clearCache"
              THEN log
              ELSE Append(log, [ op |-> "clearCache", key |-> "", mode |-> "none",
                                 oncePerSession |-> FALSE, suppressed |-> FALSE,
                                 channels |-> {}, message |-> "" ])
    /\ UNCHANGED << mode, oncePerSession >>

\* an updatePreferences that also starts a fresh seen-set
updatePreferences_resetsSeenSet(newMode, newOncePerSession) ==
    /\ mode' = newMode
    /\ oncePerSession' = newOncePerSession
    /\ notifiedFallbacks' = {}
    /\ UNCHANGED log

updatePreferences(newMode, newOncePerSession) ==
    /\ mode' = newMode
    /\ oncePerSession' = newOncePerSession
    /\ UNCHANGED << notifiedFallbacks, log >>

\* the methods above, called on the manager alone
CallNotifyFallback(requestedTier, actualTier, reason) ==
    /\ notifyFallback(requestedTier, actualTier, reason)
    /\ UNCHANGED << settings, resolverVars, registryVars, calls, providerVars >>

CallNotifyProviderError(provider, model, error) ==
    /\ notifyProviderError(provider, model, error)
    /\ UNCHANGED << settings, resolverVars, registryVars, calls, providerVars >>

CallClearCache ==
    /\ clearCache
    /\ UNCHANGED << settings, resolverVars, registryVars, calls, providerVars >>

\* ------------------------------------------------------------------------
\* ModelRegistry (models/ModelRegistry)
\* ------------------------------------------------------------------------
\* Array.prototype.find: the first element that passes, as an optional value
\* (hits: the elements that pass, in the array's order)
FirstOf(hits) ==
    IF hits = << >> THEN undefined ELSE Some(hits[1])

\* a ModelCriteria record; an absent criterion is undefined
ModelCriteria(tag, provider, capability, minContextWindow) ==
    [ tag |-> tag, provider |-> provider, capability |-> capability,
      minContextWindow |-> minContextWindow ]

\* a matchesCriteria for which one of the listed capabilities is enough
matchesCriteria_anyCapability(model, criteria) ==
    /\ ~(Truthy(criteria.tag) /\ criteria.tag[1] \notin model.tags)
    /\ ~(Truthy(criteria.provider) /\ model.provider # criteria.provider[1])
    /\ ~(criteria.capability # undefined
            /\ criteria.capability[1] # {}
            /\ criteria.capability[1] \cap model.capabilities = {})
    /\ ~(criteria.minContextWindow # undefined
            /\ ( \/ model.contextWindow = undefined
                 \/ model.contextWindow[1] = 0
                 \/ model.contextWindow[1] < criteria.minContextWindow[1] ))

matchesCriteria(model, criteria) ==
    /\ ~(Truthy(criteria.tag) /\ criteria.tag[1] \notin model.tags)
    /\ ~(Truthy(criteria.provider) /\ model.provider # criteria.provider[1])
    /\ ~(criteria.capability # undefined
            /\ ~(criteria.capability[1] \subseteq model.capabilities))
    /\ ~(criteria.minContextWindow # undefined
            /\ ( \/ model.contextWindow = undefined
                 \/ model.contextWindow[1] = 0
                 \/ model.contextWindow[1] < criteria.minContextWindow[1] ))

find(registry, criteria) ==
    LET Test(m) == matchesCriteria(m, criteria)
    IN  FirstOf(SelectSeq(registry, Test))

\* a ModelFilter record; an absent field is undefined
ModelFilter(provider, tag) ==
    [ provider |-> provider, tag |-> tag ]

\* list(filter?): without a filter a copy of the whole list, with one the
\* models that pass it, in the registry's order
list(registry, filter) ==
    IF filter = undefined THEN registry
    ELSE LET Test(m) ==
                 /\ ~(Truthy(filter[1].provider) /\ m.provider # filter[1].provider[1])
                 /\ ~(Truthy(filter[1].tag) /\ filter[1].tag[1] \notin m.tags)
         IN  SelectSeq(registry, Test)

\* a getByNameOrTag that tries the tag before the id and the name
getByNameOrTag_tagFirst(registry, nameOrTag) ==
    LET ById(m) == m.id = nameOrTag
        ByName(m) == m.name = nameOrTag
        byId == FirstOf(SelectSeq(registry, ById))
        byName == FirstOf(SelectSeq(registry, ByName))
        byTag == find(registry, ModelCriteria(Some(nameOrTag), undefined, undefined,
                                              undefined))
    IN  IF byTag # undefined THEN byTag
        ELSE IF byId # undefined THEN byId
        ELSE byName

getByNameOrTag(registry, nameOrTag) ==
    LET ById(m) == m.id = nameOrTag
        ByName(m) == m.name = nameOrTag
        byId == FirstOf(SelectSeq(registry, ById))
        byName == FirstOf(SelectSeq(registry, ByName))
    IN  IF byId # undefined THEN byId
        ELSE IF byName # undefined THEN byName
        ELSE find(registry, ModelCriteria(Some(nameOrTag), undefined, undefined, undefined))

\* updateModels: the array handed in becomes the registry's list
updateModels_merges(newModels) ==
    models' = models \o newModels

updateModels(newModels) ==
    models' = newModels

\* --- the registry's operations as steps ---
\* lookup records the operation, its argument and its answer, the array most
\* recently handed to updateModels (given) and the models of earlier
\* snapshots that the current one no longer holds (dropped)
Range(seq) == { seq[i] : i \in 1..Len(seq) }

NoLookup ==
    [ op |-> "none", args |-> undefined, result |-> undefined,
      given |-> << >>, dropped |-> {} ]

Answer(op, args, result) ==
    [ lookup EXCEPT !.op = op, !.args = args, !.result = result ]

UpdateModels(newModels) ==
    /\ updateModels(newModels)
    /\ lookup' = [ op |-> "updateModels", args |-> undefined, result |-> undefined,
                   given |-> newModels,
                   dropped |-> (lookup.dropped \cup Range(models)) \ Range(newModels) ]
    /\ UNCHANGED << settings, resolverVars, notificationVars, calls, providerVars >>

Find(criteria) ==
    /\ lookup' = Answer("find", << criteria >>, find(models, criteria))
    /\ UNCHANGED << settings, resolverVars, notificationVars, models, calls,
                    providerVars >>

List(filter) ==
    /\ lookup' = Answer("list", filter, list(models, filter))
    /\ UNCHANGED << settings, resolverVars, notificationVars, models, calls,
                    providerVars >>

GetByNameOrTag(nameOrTag) ==
    /\ lookup' = Answer("getByNameOrTag", << nameOrTag >>,
                        getByNameOrTag(models, nameOrTag))
    /\ UNCHANGED << settings, resolverVars, notificationVars, models, calls,
                    providerVars >>

\* ------------------------------------------------------------------------
\* Provider adapters and ProviderManager (providers/*, models/ProviderManager)
\* ------------------------------------------------------------------------
\* validateConfig: Ollama needs a base URL, the cloud providers an API key
validateConfig(id, config) ==
    IF id = "ollama" THEN config.baseUrl ELSE config.apiKey

\* an isConfigured that looks at the enabled flag only
isConfigured_enabledOnly(configs, id) ==
    configs[id].enabled

\* LLMProvider.isConfigured of the adapter registered under id. The adapter's
\* config and the ProviderManager's entry are the settings' own config object
\* (or, after loadConfigs, a copy taken at the end of the same handler), so
\* both are read from the settings' provider configurations.
isConfigured(configs, id) ==
    configs[id].enabled /\ validateConfig(id, configs[id])

\* --- ProviderManager ---
\* providerManager.loaded: the ids that have an entry in ProviderManager.configs;
\* an entry is the settings' own config object. providerManager.adapters[id]:
\* the registered adapter's own copy of its config (after updateConfig), or
\* undefined while the adapter shares the settings' config object (after
\* registerProviders).
AdapterConfig(id) ==
    IF providerManager.adapters[id] = undefined
    THEN settings.providers[id]
    ELSE providerManager.adapters[id][1]

AdapterConfigs == [id \in Registered |-> AdapterConfig(id)]

\* loadConfigs(settings.providers): every entry is stored and handed to its
\* adapter's updateConfig, which keeps a copy
loadConfigs(configs) ==
    [ loaded |-> DOMAIN configs, adapters |-> [id \in Registered |-> Some(configs[id])] ]

\* registerProviders after loadConfigs: new adapters over the settings' objects
registerProviders(manager) ==
    [ manager EXCEPT !.adapters = [id \in Registered |-> undefined] ]

\* getActive: the first registered adapter whose loaded config is enabled and
\* whose isConfigured holds
RECURSIVE getActive(_)
getActive(i) ==
    IF i > Len(PROVIDER_IDS) THEN undefined
    ELSE LET id == PROVIDER_IDS[i]
         IN  IF /\ id \in providerManager.loaded
                /\ settings.providers[id].enabled
                /\ isConfigured(AdapterConfigs, id)
             THEN Some(id)
             ELSE getActive(i + 1)

\* a getAllModels that gives up at the first adapter whose listModels fails
RECURSIVE getAllModels_stopsAtFailure(_, _, _)
getAllModels_stopsAtFailure(configs, i, reachable) ==
    IF i > Len(PROVIDER_IDS) THEN << >>
    ELSE LET id == PROVIDER_IDS[i]
         IN  IF configs[id].enabled /\ isConfigured(configs, id)
             THEN IF id \in reachable
                  THEN ProviderCatalog[id]
                           \o getAllModels_stopsAtFailure(configs, i + 1, reachable)
                  ELSE << >>
             ELSE getAllModels_stopsAtFailure(configs, i + 1, reachable)

\* getAllModels: the providers that are enabled and configured, in
\* registration order, each contributing its list unless listModels fails
\* (reachable: the providers whose listModels answers)
RECURSIVE getAllModels(_, _, _)
getAllModels(configs, i, reachable) ==
    IF i > Len(PROVIDER_IDS) THEN << >>
    ELSE LET id == PROVIDER_IDS[i]
         IN  ( IF configs[id].enabled /\ isConfigured(configs, id) /\ id \in reachable
               THEN ProviderCatalog[id]
               ELSE << >> ) \o getAllModels(configs, i + 1, reachable)

\* ------------------------------------------------------------------------
\* Plugin: saveSettings (main.ts)
\* ------------------------------------------------------------------------
\* saveSettings with the settings object as the caller left it: hands the
\* settings to the resolver (the same object) and the two notification
\* preferences to the NotificationManager
saveSettings(newSettings) ==
    /\ settings' = newSettings
    /\ updatePreferences(newSettings.fallbackNotification,
                         newSettings.showOncePerSession)

\* refreshModels: the registry is replaced by what getAllModels returns
refreshModels(configs, reachable) ==
    updateModels(getAllModels(configs, 1, reachable))

\* no settings-tab handler is suspended
NoPending == [ handler |-> "none", id |-> "" ]

\* --- createAPI: complete ---
NoCall ==
    [ pc |-> "idle", options |-> undefined, trace |-> << >>,
      tierResolution |-> undefined, modelToUse |-> undefined,
      notified |-> undefined, target |-> "", request |-> undefined,
      result |-> undefined, error |-> "" ]

Event(op, args) == [ op |-> op, args |-> args ]

\* the call as it stands when complete throws before the adapter is invoked
Thrown(options, trace, tierResolution, modelToUse, notified, message) ==
    [ pc |-> "failed", options |-> Some(options), trace |-> trace,
      tierResolution |-> tierResolution, modelToUse |-> modelToUse,
      notified |-> notified, target |-> "", request |-> undefined,
      result |-> undefined, error |-> message ]

\* the catch block around the tier branch: the error is thrown again, wrapped
TierResolutionFailed(message) ==
    "Tier resolution failed: " \o message \o ". "
        \o "Please configure tiers in LLM Connector settings."

\* a dispatch that always goes to the adapter of the resolved model's provider
Dispatch_toModelProvider(options, trace, tierResolution, modelToUse, notified) ==
    LET id == modelToUse.provider
        looked == Append(trace, Event("getProvider", << id >>))
    IN  IF id \notin Registered
        THEN Thrown(options, looked, tierResolution, Some(modelToUse), notified,
                    "Provider not found: " \o modelToUse.provider)
        ELSE IF ~isConfigured(AdapterConfigs, id)
        THEN Thrown(options, Append(looked, Event("isConfigured", << id >>)),
                    tierResolution, Some(modelToUse), notified,
                    "Provider " \o modelToUse.provider \o " is not configured")
        ELSE [ pc |-> "awaiting", options |-> Some(options),
               trace |-> looked \o << Event("isConfigured", << id >>),
                                      Event("provider.complete", << id, modelToUse.id >>) >>,
               tierResolution |-> tierResolution, modelToUse |-> Some(modelToUse),
               notified |-> notified, target |-> id,
               request |-> Some([options EXCEPT !.model = Some(modelToUse.id)]),
               result |-> undefined, error |-> "" ]

\* 'Get provider' and 'Execute completion' up to the await: the adapter is
\* looked up under options.provider ?? modelToUse.provider and, if it is
\* registered and configured, its complete is invoked with the model's id
Dispatch(options, trace, tierResolution, modelToUse, notified) ==
    LET id == IF options.provider # undefined THEN options.provider[1]
              ELSE modelToUse.provider
        looked == Append(trace, Event("getProvider", << id >>))
    IN  IF id \notin Registered
        THEN Thrown(options, looked, tierResolution, Some(modelToUse), notified,
                    "Provider not found: " \o modelToUse.provider)
        ELSE IF ~isConfigured(AdapterConfigs, id)
        THEN Thrown(options, Append(looked, Event("isConfigured", << id >>)),
                    tierResolution, Some(modelToUse), notified,
                    "Provider " \o modelToUse.provider \o " is not configured")
        ELSE [ pc |-> "awaiting", options |-> Some(options),
               trace |-> looked \o << Event("isConfigured", << id >>),
                                      Event("provider.complete", << id, modelToUse.id >>) >>,
               tierResolution |-> tierResolution, modelToUse |-> Some(modelToUse),
               notified |-> notified, target |-> id,
               request |-> Some([options EXCEPT !.model = Some(modelToUse.id)]),
               result |-> undefined, error |-> "" ]

\* a message for the missing model that is the explicit-model branch's
ModelMissing_asModelNotFound(model, provider) ==
    "Model not found: " \o model

\* the error thrown when the assigned model is not in the registry
ModelMissing(model, provider) ==
    "Model \"" \o model \o "\" from provider \"" \o provider
        \o "\" not found. Is the provider connected?"

\* the tier branch: resolve, look the assigned model up, notify a fallback
CompleteByTier(options) ==
    LET tier == IF options.tier # undefined THEN options.tier[1]
                ELSE settings.defaultTier
        tierResolution == resolve(settings.tiers, tier)
        resolved == << Event("resolve", << tier >>) >>
    IN  IF ~tierResolution.ok
        THEN Thrown(options, resolved, undefined, undefined, undefined,
                    TierResolutionFailed(tierResolution.message))
        ELSE
        LET provider == tierResolution.assignment[1].provider
            model == tierResolution.assignment[1].model
            WithId(m) == m.id = model
            modelToUse ==
                FirstOf(SelectSeq(list(models, Some(ModelFilter(Some(provider),
                                                                 undefined))),
                                  WithId))
            listed == Append(resolved, Event("list", << provider >>))
            notified ==
                IF tierResolution.fallbackOccurred
                   /\ tierResolution.fallbackReason \notin {"undefined", ""}
                THEN Some(<< tierResolution.requestedTier, tierResolution.tier,
                             tierResolution.fallbackReason >>)
                ELSE undefined
        IN  IF modelToUse = undefined
            THEN Thrown(options, listed, Some(tierResolution), undefined, undefined,
                        TierResolutionFailed(ModelMissing(model, provider)))
            ELSE Dispatch(options,
                          IF notified = undefined THEN listed
                          ELSE Append(listed, Event("notifyFallback", notified[1])),
                          Some(tierResolution), modelToUse[1], notified)

\* a complete that lets a given tier take priority over a given model
CompleteSync_tierFirst(options) ==
    IF ~Truthy(Some(options.prompt))
    THEN Thrown(options, << >>, undefined, undefined, undefined, "Prompt is required")
    ELSE IF Truthy(options.model) /\ options.tier = undefined
    THEN LET modelToUse == getByNameOrTag(models, options.model[1])
             looked == << Event("getByNameOrTag", << options.model[1] >>) >>
         IN  IF modelToUse = undefined
             THEN Thrown(options, looked, undefined, undefined, undefined,
                         "Model not found: " \o options.model[1])
             ELSE Dispatch(options, looked, undefined, modelToUse[1], undefined)
    ELSE CompleteByTier(options)

\* a complete that validates the prompt only when it is about to call the adapter
CompleteSync_promptLast(options) ==
    LET call == IF Truthy(options.model)
                THEN LET modelToUse == getByNameOrTag(models, options.model[1])
                         looked == << Event("getByNameOrTag", << options.model[1] >>) >>
                     IN  IF modelToUse = undefined
                         THEN Thrown(options, looked, undefined, undefined, undefined,
                                     "Model not found: " \o options.model[1])
                         ELSE Dispatch(options, looked, undefined, modelToUse[1], undefined)
                ELSE CompleteByTier(options)
    IN  IF ~Truthy(Some(options.prompt)) /\ call.pc = "awaiting"
        THEN Thrown(options, call.trace, call.tierResolution, call.modelToUse,
                    call.notified, "Prompt is required")
        ELSE call

\* complete up to its first suspension point (the await of the adapter)
CompleteSync(options) ==
    IF ~Truthy(Some(options.prompt))
    THEN Thrown(options, << >>, undefined, undefined, undefined, "Prompt is required")
    ELSE IF Truthy(options.model)
    THEN LET modelToUse == getByNameOrTag(models, options.model[1])
             looked == << Event("getByNameOrTag", << options.model[1] >>) >>
         IN  IF modelToUse = undefined
             THEN Thrown(options, looked, undefined, undefined, undefined,
                         "Model not found: " \o options.model[1])
             ELSE Dispatch(options, looked, undefined, modelToUse[1], undefined)
    ELSE CompleteByTier(options)

\* a complete that reports a fallback only once the adapter has been invoked
Complete_notifiesOnlyDispatched(caller, options) ==
    /\ calls[caller].pc # "awaiting"
    /\ LET call == CompleteSync(options)
       IN  /\ calls' = [calls EXCEPT ![caller] = call]
           /\ IF call.notified # undefined /\ call.pc = "awaiting"
              THEN notifyFallback(call.notified[1][1], call.notified[1][2],
                                  call.notified[1][3])
              ELSE UNCHANGED notificationVars
    /\ UNCHANGED << settings, resolverVars, registryVars, providerVars >>

\* a caller invokes api.complete(options): everything up to the await
Complete(caller, options) ==
    /\ calls[caller].pc # "awaiting"
    /\ LET call == CompleteSync(options)
       IN  /\ calls' = [calls EXCEPT ![caller] = call]
           /\ IF call.notified # undefined
              THEN notifyFallback(call.notified[1][1], call.notified[1][2],
                                  call.notified[1][3])
              ELSE UNCHANGED notificationVars
    /\ UNCHANGED << settings, resolverVars, registryVars, providerVars >>

\* the result an adapter's complete returns for a request
AdapterResult(target, request) ==
    [ text |-> "completion", model |-> request.model[1], provider |-> target,
      requestedTier |-> undefined, actualTier |-> undefined,
      fallbackOccurred |-> undefined, fallbackReason |-> undefined ]

\* a stamp that reports the requested tier as the tier used
Stamp_requestedAsActual(result, tierResolution) ==
    IF tierResolution = undefined THEN result
    ELSE [ result EXCEPT
             !.requestedTier = Some(tierResolution[1].requestedTier),
             !.actualTier = Some(tierResolution[1].requestedTier),
             !.fallbackOccurred = Some(tierResolution[1].fallbackOccurred),
             !.fallbackReason = IF tierResolution[1].fallbackReason = "undefined"
                                THEN undefined
                                ELSE Some(tierResolution[1].fallbackReason) ]

\* 'Add tier metadata if tier was used'
Stamp(result, tierResolution) ==
    IF tierResolution = undefined THEN result
    ELSE [ result EXCEPT
             !.requestedTier = Some(tierResolution[1].requestedTier),
             !.actualTier = Some(tierResolution[1].tier),
             !.fallbackOccurred = Some(tierResolution[1].fallbackOccurred),
             !.fallbackReason = IF tierResolution[1].fallbackReason = "undefined"
                                THEN undefined
                                ELSE Some(tierResolution[1].fallbackReason) ]

\* a return that stamps the result with what the tier resolves to by then
CompleteReturns_stampsCurrent(caller) ==
    /\ calls[caller].pc = "awaiting"
    /\ LET call == calls[caller]
           current == CompleteSync(call.options[1])
       IN  calls' = [calls EXCEPT ![caller] =
                        [ call EXCEPT
                            !.pc = "done",
                            !.result = Some(Stamp(AdapterResult(call.target, call.request[1]),
                                                  current.tierResolution)) ]]
    /\ UNCHANGED << settings, resolverVars, notificationVars, registryVars, providerVars >>

\* the adapter's promise resolves: complete stamps the result and returns it
CompleteReturns(caller) ==
    /\ calls[caller].pc = "awaiting"
    /\ LET call == calls[caller]
       IN  calls' = [calls EXCEPT ![caller] =
                        [ call EXCEPT
                            !.pc = "done",
                            !.result = Some(Stamp(AdapterResult(call.target, call.request[1]),
                                                  call.tierResolution)) ]]
    /\ UNCHANGED << settings, resolverVars, notificationVars, registryVars, providerVars >>

\* the adapter's promise rejects: the error is notified and thrown again
CompleteThrows(caller, message) ==
    /\ calls[caller].pc = "awaiting"
    /\ LET call == calls[caller]
       IN  /\ notifyProviderError(call.modelToUse[1].provider, call.modelToUse[1].id,
                                  message)
           /\ calls' = [calls EXCEPT ![caller] =
                          [ call EXCEPT
                              !.pc = "failed",
                              !.trace = Append(call.trace,
                                  Event("notifyProviderError",
                                        << call.modelToUse[1].provider,
                                           call.modelToUse[1].id, message >>)),
                              !.error = message ]]
    /\ UNCHANGED << settings, resolverVars, registryVars, providerVars >>

\* stream's 'Get provider' and 'Execute streaming': the adapter is looked up
\* under options.provider ?? modelToUse.provider and, if it is registered, its
\* stream is delegated to with the model's id
StreamDispatch(options, trace, tierResolution, modelToUse, notified) ==
    LET id == IF options.provider # undefined THEN options.provider[1]
              ELSE modelToUse.provider
        looked == Append(trace, Event("getProvider", << id >>))
    IN  IF id \notin Registered
        THEN Thrown(options, looked, tierResolution, Some(modelToUse), notified,
                    "Provider not found: " \o modelToUse.provider)
        ELSE [ pc |-> "streaming", options |-> Some(options),
               trace |-> Append(looked, Event("provider.stream", << id, modelToUse.id >>)),
               tierResolution |-> tierResolution, modelToUse |-> Some(modelToUse),
               notified |-> notified, target |-> id,
               request |-> Some([options EXCEPT !.model = Some(modelToUse.id)]),
               result |-> undefined, error |-> "" ]

\* the body of the stream generator up to its delegation to the adapter
StreamSync(options) ==
    IF Truthy(options.model)
    THEN LET modelToUse == getByNameOrTag(models, options.model[1])
             looked == << Event("getByNameOrTag", << options.model[1] >>) >>
         IN  IF modelToUse = undefined
             THEN Thrown(options, looked, undefined, undefined, undefined,
                         "Model not found: " \o options.model[1])
             ELSE StreamDispatch(options, looked, undefined, modelToUse[1], undefined)
    ELSE
    LET tier == IF options.tier # undefined THEN options.tier[1]
                ELSE settings.defaultTier
        tierResolution == resolve(settings.tiers, tier)
        resolved == << Event("resolve", << tier >>) >>
    IN  IF ~tierResolution.ok
        THEN Thrown(options, resolved, undefined, undefined, undefined,
                    tierResolution.message)
        ELSE
        LET provider == tierResolution.assignment[1].provider
            model == tierResolution.assignment[1].model
            WithId(m) == m.id = model
            modelToUse ==
                FirstOf(SelectSeq(list(models, Some(ModelFilter(Some(provider),
                                                                 undefined))),
                                  WithId))
            listed == Append(resolved, Event("list", << provider >>))
            notified ==
                IF tierResolution.fallbackOccurred
                   /\ tierResolution.fallbackReason \notin {"undefined", ""}
                THEN Some(<< tierResolution.requestedTier, tierResolution.tier,
                             tierResolution.fallbackReason >>)
                ELSE undefined
        IN  IF modelToUse = undefined
            THEN Thrown(options, listed, Some(tierResolution), undefined, undefined,
                        "Model \"" \o model \o "\" from provider \"" \o provider
                            \o "\" not found")
            ELSE StreamDispatch(options,
                                IF notified = undefined THEN listed
                                ELSE Append(listed, Event("notifyFallback", notified[1])),
                                Some(tierResolution), modelToUse[1], notified)

\* a stream that emits its fallback notification without looking at the
\* seen-set
Stream_notifiesUnchecked(caller, options) ==
    /\ calls[caller].pc \notin {"awaiting", "streaming"}
    /\ LET call == StreamSync(options)
       IN  /\ calls' = [calls EXCEPT ![caller] = call]
           /\ IF call.notified # undefined
              THEN LET key == FallbackKey(call.notified[1][1], call.notified[1][2],
                                          call.notified[1][3])
                   IN  /\ Cardinality(NotifyCalls(log)) < MaxNotify
                       /\ notifiedFallbacks' = notifiedFallbacks \cup {key}
                       /\ log' = Append(log,
                              LogEntry("notifyFallback", key, FALSE, Channels(mode),
                                       formatFallbackMessage(call.notified[1][1],
                                                             call.notified[1][2],
                                                             call.notified[1][3])))
                       /\ UNCHANGED << mode, oncePerSession >>
              ELSE UNCHANGED notificationVars
    /\ UNCHANGED << settings, resolverVars, registryVars, providerVars >>

\* a caller iterates api.stream(options): the generator's body up to yield*
Stream(caller, options) ==
    /\ calls[caller].pc \notin {"awaiting", "streaming"}
    /\ LET call == StreamSync(options)
       IN  /\ calls' = [calls EXCEPT ![caller] = call]
           /\ IF call.notified # undefined
              THEN notifyFallback(call.notified[1][1], call.notified[1][2],
                                  call.notified[1][3])
              ELSE UNCHANGED notificationVars
    /\ UNCHANGED << settings, resolverVars, registryVars, providerVars >>

\* the adapter's generator ends: it is exhausted or it throws, and stream
\* ends the same way (yield* passes both on; nothing is notified)
StreamEnds(caller, outcome) ==
    /\ calls[caller].pc = "streaming"
    /\ calls' = [calls EXCEPT ![caller] =
                   IF outcome = "exhausted"
                   THEN [ calls[caller] EXCEPT !.pc = "done" ]
                   ELSE [ calls[caller] EXCEPT !.pc = "failed", !.error = outcome ]]
    /\ UNCHANGED << settings, resolverVars, notificationVars, registryVars, providerVars >>

\* --- complete with a console or Notice call that throws ---
\* the error a failing console.warn, console.error or new Notice throws
EmissionFailure == "emission failed"

\* a notify call that gets as far as its switch on the mode and whose write
\* to the channel `failing` throws: the key is marked already, and with mode
\* 'both' the console has been written to when the Notice fails
NotifyFailing(op, key, message, failing) ==
    /\ Cardinality(NotifyCalls(log)) < MaxNotify
    /\ ~(oncePerSession /\ key \in notifiedFallbacks)
    /\ failing \in Channels(mode)
    /\ notifiedFallbacks' = notifiedFallbacks \cup {key}
    /\ log' = Append(log, LogEntry(op, key, FALSE,
                                   IF failing = "notice" THEN Channels(mode) \ {"notice"}
                                   ELSE {},
                                   message))
    /\ UNCHANGED << mode, oncePerSession >>

\* a caller invokes api.complete(options) and the fallback notification's
\* write throws: the tier branch's catch wraps the error and complete throws
CompleteEmissionFails(caller, options, failing) ==
    /\ calls[caller].pc # "awaiting"
    /\ LET call == CompleteSync(options)
       IN  /\ call.notified # undefined
           /\ NotifyFailing("notifyFallback",
                            FallbackKey(call.notified[1][1], call.notified[1][2],
                                        call.notified[1][3]),
                            formatFallbackMessage(call.notified[1][1], call.notified[1][2],
                                                  call.notified[1][3]),
                            failing)
           /\ calls' = [calls EXCEPT ![caller] =
                          Thrown(options,
                                 \* resolve, list, notifyFallback
                                 SubSeq(call.trace, 1, 3),
                                 call.tierResolution, call.modelToUse, call.notified,
                                 TierResolutionFailed(EmissionFailure))]
    /\ UNCHANGED << settings, resolverVars, registryVars, providerVars >>

\* the adapter's promise rejects and the error notification's write throws:
\* the notification's error leaves the catch block in place of the adapter's
CompleteThrowsEmissionFails(caller, message, failing) ==
    /\ calls[caller].pc = "awaiting"
    /\ LET call == calls[caller]
       IN  /\ NotifyFailing("notifyProviderError",
                            ProviderErrorKey(call.modelToUse[1].provider,
                                             call.modelToUse[1].id),
                            "Provider error: " \o call.modelToUse[1].provider \o "/"
                                \o call.modelToUse[1].id \o " - " \o message,
                            failing)
           /\ calls' = [calls EXCEPT ![caller] =
                          [ call EXCEPT
                              !.pc = "failed",
                              !.trace = Append(call.trace,
                                  Event("notifyProviderError",
                                        << call.modelToUse[1].provider,
                                           call.modelToUse[1].id, message >>)),
                              !.error = EmissionFailure ]]
    /\ UNCHANGED << settings, resolverVars, registryVars, providerVars >>

\* ------------------------------------------------------------------------
\* Settings tab (ui/LLMConnectorSettingTab)
\* ------------------------------------------------------------------------
\* the tier selector callback: assign or unassign a tier, then saveSettings
AssignTier(tier, value) ==
    /\ saveSettings([settings EXCEPT !.tiers[tier] = value])
    /\ consecutive' = [tier |-> "undefined", count |-> 0]
    /\ UNCHANGED << resolution, registryVars, calls, providerVars >>

\* what the model selector offers for a tier: 'Not configured' and the
\* registry's models, embedding models for the embedding tier only
Offered(tier) ==
    {undefined} \cup
    { Some([provider |-> models[i].provider, model |-> models[i].id]) :
        i \in { n \in 1..Len(models) :
                   ("embedding" \in models[n].tags) <=> (tier = "embedding") } }

\* a provider's enable toggle: set the flag, saveSettings, loadConfigs,
\* registerProviders, refreshModels
ToggleProvider(id, value, reachable) ==
    /\ pending = NoPending
    /\ saveSettings([settings EXCEPT !.providers[id].enabled = value])
    /\ providerManager' = registerProviders(loadConfigs(settings'.providers))
    /\ refreshModels(settings'.providers, reachable)
    /\ UNCHANGED << resolverVars, lookup, calls, pending >>

\* the API key field of an enabled provider: set it, saveSettings, loadConfigs
SetApiKey(id, present) ==
    /\ pending = NoPending
    /\ settings.providers[id].enabled
    /\ saveSettings([settings EXCEPT !.providers[id].apiKey = present])
    /\ providerManager' = loadConfigs(settings'.providers)
    /\ UNCHANGED << resolverVars, registryVars, calls, pending >>

\* the 'Refresh all' button: loadConfigs, registerProviders, refreshModels
RefreshAll(reachable) ==
    /\ pending = NoPending
    /\ providerManager' = registerProviders(loadConfigs(settings.providers))
    /\ refreshModels(settings.providers, reachable)
    /\ UNCHANGED << settings, resolverVars, notificationVars, lookup, calls, pending >>

\* the status line the tier section shows under a tier's selector
tierStatus(tier) ==
    LET currentAssignment == settings.tiers[tier]
        availableModels == list(models, undefined)
    IN  IF currentAssignment # undefined
        THEN IF ~settings.providers[currentAssignment[1].provider].enabled
             THEN "Not configured - will fall back"
             ELSE IF \E i \in 1..Len(availableModels) :
                        /\ availableModels[i].provider = currentAssignment[1].provider
                        /\ availableModels[i].id = currentAssignment[1].model
             THEN "Configured: " \o currentAssignment[1].model
             ELSE "provider unreachable - will fall back"
        ELSE IF tier = "embedding"
        THEN "Not configured - will error if requested"
        ELSE "Not configured - will fall back"

\* --- the provider handlers with their suspension in saveSettings ---
\* the toggle's onChange up to the await inside saveSettings: the flag is
\* written into the settings' config object
BeginToggle(id, value) ==
    /\ pending = NoPending
    /\ settings' = [settings EXCEPT !.providers[id].enabled = value]
    /\ pending' = [ handler |-> "toggle", id |-> id ]
    /\ lookup' = Answer("onChange", undefined, undefined)
    /\ UNCHANGED << resolverVars, notificationVars, models, calls, providerManager >>

\* the rest of the toggle's onChange: the tail of saveSettings, loadConfigs,
\* registerProviders, refreshModels
EndToggle(reachable) ==
    /\ pending.handler = "toggle"
    /\ saveSettings(settings)
    /\ providerManager' = registerProviders(loadConfigs(settings.providers))
    /\ refreshModels(settings.providers, reachable)
    /\ pending' = NoPending
    /\ lookup' = Answer("loadConfigs", undefined, undefined)
    /\ UNCHANGED << resolverVars, calls >>

\* the API key field's onChange up to the await inside saveSettings
BeginSetApiKey(id, present) ==
    /\ pending = NoPending
    /\ settings.providers[id].enabled
    /\ settings' = [settings EXCEPT !.providers[id].apiKey = present]
    /\ pending' = [ handler |-> "field", id |-> id ]
    /\ lookup' = Answer("onChange", undefined, undefined)
    /\ UNCHANGED << resolverVars, notificationVars, models, calls, providerManager >>

\* the rest of the field's onChange: the tail of saveSettings, loadConfigs
EndSetApiKey ==
    /\ pending.handler = "field"
    /\ saveSettings(settings)
    /\ providerManager' = loadConfigs(settings.providers)
    /\ pending' = NoPending
    /\ lookup' = Answer("loadConfigs", undefined, undefined)
    /\ UNCHANGED << resolverVars, models, calls >>

\* the 'Reload models' button of a provider: loadConfigs, registerProviders,
\* refreshModels
ReloadModels(reachable) ==
    /\ providerManager' = registerProviders(loadConfigs(settings.providers))
    /\ refreshModels(settings.providers, reachable)
    /\ lookup' = Answer("loadConfigs", undefined, undefined)
    /\ UNCHANGED << settings, resolverVars, notificationVars, calls, pending >>

\* a refresh as every caller of refreshModels makes it (onload and the
\* settings tab's buttons): loadConfigs, registerProviders, refreshModels;
\* reachable is the set of adapters whose listModels answers this time
RefreshModels(reachable) ==
    /\ pending = NoPending
    /\ providerManager' = registerProviders(loadConfigs(settings.providers))
    /\ refreshModels(settings.providers, reachable)
    /\ lookup' = Answer("refreshModels", << reachable >>, undefined)
    /\ UNCHANGED << settings, resolverVars, notificationVars, calls, pending >>

\* --- the cached-startup version of the plugin ---
\* its refreshModels: the registry is replaced by what getAllModels returns
\* and the same array is stored as settings.modelCache and saved
refreshModelsCached(configs, reachable) ==
    /\ updateModels(getAllModels(configs, 1, reachable))
    /\ saveSettings([settings EXCEPT !.providers = configs,
                                     !.modelCache = Some(models')])

\* the startup background refresh and the settings tab's refreshes
CachedRefresh(reachable) ==
    /\ pending = NoPending
    /\ providerManager' = registerProviders(loadConfigs(settings.providers))
    /\ refreshModelsCached(settings.providers, reachable)
    /\ lookup' = Answer("refreshModels", << reachable >>, undefined)
    /\ UNCHANGED << resolverVars, notifiedFallbacks, log, calls, pending >>

\* a provider's enable toggle in the cached-startup version
CachedToggleProvider(id, value, reachable) ==
    /\ pending = NoPending
    /\ providerManager' =
          registerProviders(loadConfigs([settings.providers EXCEPT ![id].enabled = value]))
    /\ refreshModelsCached([settings.providers EXCEPT ![id].enabled = value], reachable)
    /\ lookup' = Answer("toggle", << reachable >>, undefined)
    /\ UNCHANGED << resolverVars, notifiedFallbacks, log, calls, pending >>

\* Obsidian is restarted: onload builds the managers anew from the saved
\* settings and, if the saved cache holds models, loads them into the registry
CachedOnload ==
    /\ pending = NoPending
    /\ \A c \in ConcurrentCallers : calls[c].pc # "awaiting"
    /\ UNCHANGED settings
    /\ resolution' = NoResolution
    /\ consecutive' = [tier |-> "undefined", count |-> 0]
    /\ notifiedFallbacks' = {}
    /\ mode' = settings.fallbackNotification
    /\ oncePerSession' = settings.showOncePerSession
    /\ log' = << >>
    /\ models' = IF settings.modelCache # undefined /\ Len(settings.modelCache[1]) > 0
                 THEN settings.modelCache[1]
                 ELSE << >>
    /\ lookup' = Answer("onload", undefined, undefined)
    /\ calls' = [c \in ConcurrentCallers |-> NoCall]
    /\ providerManager' = registerProviders(loadConfigs(settings.providers))
    /\ UNCHANGED pending

\* api.isReady()
isReady == getActive(1) # undefined

IsReady ==
    /\ lookup' = Answer("isReady", undefined, << isReady >>)
    /\ UNCHANGED << settings, resolverVars, notificationVars, models, calls,
                    providerVars >>

\* the 'Fallback notifications' dropdown
SetFallbackNotification(value) ==
    /\ saveSettings([settings EXCEPT !.fallbackNotification = value])
    /\ UNCHANGED << resolverVars, registryVars, calls, providerVars >>

\* the 'Show once per session' toggle
SetShowOncePerSession(value) ==
    /\ saveSettings([settings EXCEPT !.showOncePerSession = value])
    /\ UNCHANGED << resolverVars, registryVars, calls, providerVars >>

\* ------------------------------------------------------------------------
\* Specifications
\* ------------------------------------------------------------------------
Init ==
    /\ settings = DEFAULT_SETTINGS
    /\ resolution = NoResolution
    /\ consecutive = [tier |-> "undefined", count |-> 0]
    /\ notifiedFallbacks = {}
    /\ mode = settings.fallbackNotification
    /\ oncePerSession = settings.showOncePerSession
    /\ log = << >>
    /\ models = << >>
    /\ lookup = NoLookup
    /\ calls = [c \in ConcurrentCallers |-> NoCall]
    /\ providerManager = [ loaded |-> {}, adapters |-> [id \in Registered |-> undefined] ]
    /\ pending = NoPending

NextResolver ==
    \/ \E tier \in PerformanceTier : Resolve(tier)
    \/ \E tier \in PerformanceTier, value \in TierValues : AssignTier(tier, value)

SpecResolver == Init /\ [][NextResolver]_vars

\* the fallback events and provider errors notified in the model
FallbackEvents ==
    { << "advanced", "balanced", "tier_not_configured" >>,
      << "fast", "balanced", "tier_not_configured" >> }

ProviderErrorEvents ==
    { << "ollama", "llama3.2", "HTTP 500" >> }

\* the complete requests made in the model
Request(prompt, model, tier, provider) ==
    [ prompt |-> prompt, model |-> model, tier |-> tier, provider |-> provider ]

Requests ==
    { Request("hi", undefined, Some("advanced"), undefined),
      Request("hi", undefined, Some("balanced"), undefined),
      Request("hi", undefined, undefined, undefined),
      Request("hi", undefined, Some("embedding"), undefined),
      Request("hi", Some("gpt-4o"), Some("fast"), undefined),
      Request("hi", Some("fast"), undefined, undefined),
      Request("hi", Some("no-such-model"), Some("advanced"), undefined),
      Request("", undefined, Some("advanced"), undefined),
      Request("hi", undefined, Some("advanced"), Some("openai")),
      Request("hi", undefined, Some("advanced"), Some("unknown")) }

\* the tiers assigned, the providers configured and the providers whose
\* listModels can answer in the plugin-level specification
AssignedTiers == {"balanced"}
UsedProviders == {"ollama", "openai"}
AdapterErrors == {"HTTP 500"}

Next ==
    \/ \E c \in Callers, o \in Requests : Complete(c, o)
    \/ \E c \in Callers : CompleteReturns(c)
    \/ \E c \in Callers, e \in AdapterErrors : CompleteThrows(c, e)
    \/ \E t \in AssignedTiers : \E v \in Offered(t) : AssignTier(t, v)
    \/ \E p \in UsedProviders, v \in BOOLEAN, r \in SUBSET UsedProviders :
            ToggleProvider(p, v, r)
    \/ \E v \in BOOLEAN : SetApiKey("openai", v)
    \/ \E r \in SUBSET UsedProviders : RefreshAll(r)

Spec == Init /\ [][Next]_vars

\* the plugin with its callers streaming
NextStream ==
    \/ \E c \in Callers, o \in Requests : Stream(c, o)
    \/ \E c \in Callers, e \in {"exhausted"} \cup AdapterErrors : StreamEnds(c, e)
    \/ \E t \in AssignedTiers : \E v \in Offered(t) : AssignTier(t, v)
    \/ \E p \in UsedProviders, v \in BOOLEAN, r \in SUBSET UsedProviders :
            ToggleProvider(p, v, r)
    \/ \E v \in BOOLEAN : SetApiKey("openai", v)
    \/ \E r \in SUBSET UsedProviders : RefreshAll(r)

SpecStream == Init /\ [][NextStream]_vars


\* the plugin with two tiers to assign, so that a tier's chain can hold a
\* usable tier behind an assigned one
ChainTiers == {"balanced", "advanced"}

TierRequests ==
    { Request("hi", undefined, Some(t), undefined) : t \in ChainTiers }

NextTiers ==
    \/ \E c \in Callers, o \in TierRequests : Complete(c, o)
    \/ \E c \in Callers : CompleteReturns(c)
    \/ \E c \in Callers, e \in AdapterErrors : CompleteThrows(c, e)
    \/ \E t \in ChainTiers : \E v \in Offered(t) : AssignTier(t, v)
    \/ \E p \in UsedProviders, v \in BOOLEAN, r \in SUBSET UsedProviders :
            ToggleProvider(p, v, r)
    \/ \E v \in BOOLEAN : SetApiKey("openai", v)
    \/ \E r \in SUBSET UsedProviders : RefreshAll(r)

SpecTiers == Init /\ [][NextTiers]_vars

\* the plugin with notification writes that can throw
NextEmission ==
    \/ \E c \in Callers, o \in TierRequests : Complete(c, o)
    \/ \E c \in Callers, o \in TierRequests, f \in {"console", "notice"} :
            CompleteEmissionFails(c, o, f)
    \/ \E c \in Callers : CompleteReturns(c)
    \/ \E c \in Callers, e \in AdapterErrors : CompleteThrows(c, e)
    \/ \E c \in Callers, e \in AdapterErrors, f \in {"console", "notice"} :
            CompleteThrowsEmissionFails(c, e, f)
    \/ \E t \in AssignedTiers : \E v \in Offered(t) : AssignTier(t, v)
    \/ \E p \in {"ollama"}, v \in BOOLEAN, r \in SUBSET {"ollama"} :
            ToggleProvider(p, v, r)
    \/ \E m \in NotificationMode : SetFallbackNotification(m)

SpecEmission == Init /\ [][NextEmission]_vars

\* two plugins whose complete calls interleave with tier assignments and
\* registry refreshes
NextConcurrent ==
    \/ \E c \in ConcurrentCallers, o \in TierRequests : Complete(c, o)
    \/ \E c \in ConcurrentCallers : CompleteReturns(c)
    \/ \E t \in ChainTiers : \E v \in Offered(t) : AssignTier(t, v)
    \/ \E v \in BOOLEAN, r \in SUBSET {"ollama"} : ToggleProvider("ollama", v, r)
    \/ \E r \in SUBSET {"ollama"} : RefreshAll(r)

SpecConcurrent == Init /\ [][NextConcurrent]_vars

\* the registry refreshed while providers are switched on and off and the
\* OpenAI key is entered and removed
NextRefresh ==
    \/ \E r \in SUBSET UsedProviders : RefreshModels(r)
    \/ \E p \in UsedProviders, r \in SUBSET UsedProviders :
            ToggleProvider(p, ~settings.providers[p].enabled, r)
    \/ SetApiKey("openai", ~settings.providers["openai"].apiKey)

SpecRefresh == Init /\ [][NextRefresh]_vars

\* the cached-startup version: sessions with refreshes that reach the
\* provider or do not
NextCached ==
    \/ \E r \in SUBSET {"ollama"} : CachedRefresh(r)
    \/ \E r \in SUBSET {"ollama"} :
            CachedToggleProvider("ollama", ~settings.providers["ollama"].enabled, r)
    \/ CachedOnload
    \/ \E t \in AssignedTiers : \E v \in Offered(t) : AssignTier(t, v)
    \/ \E c \in Callers, o \in TierRequests : Complete(c, o)
    \/ \E c \in Callers : CompleteReturns(c)

SpecCached == Init /\ [][NextCached]_vars

\* two plugins whose complete and stream calls are in flight side by side,
\* with deduplication left enabled and the seen-set never cleared
NextInterleaved ==
    \/ \E c \in ConcurrentCallers, o \in TierRequests : Complete(c, o)
    \/ \E c \in ConcurrentCallers, o \in TierRequests : Stream(c, o)
    \/ \E c \in ConcurrentCallers : CompleteReturns(c)
    \/ \E c \in ConcurrentCallers, e \in {"exhausted"} : StreamEnds(c, e)
    \/ \E t \in AssignedTiers : \E v \in Offered(t) : AssignTier(t, v)
    \/ \E v \in BOOLEAN, r \in SUBSET {"ollama"} : ToggleProvider("ollama", v, r)

SpecInterleaved == Init /\ [][NextInterleaved]_vars

\* complete and stream with requests that name a provider
OverrideRequests ==
    { Request("hi", undefined, Some("advanced"), undefined),
      Request("hi", undefined, Some("advanced"), Some("openai")),
      Request("hi", Some("fast"), undefined, Some("openai")),
      Request("hi", Some("gpt-4o"), undefined, Some("ollama")),
      Request("hi", undefined, Some("advanced"), Some("unknown")) }

NextOverride ==
    \/ \E c \in Callers, o \in OverrideRequests : Complete(c, o)
    \/ \E c \in Callers, o \in OverrideRequests : Stream(c, o)
    \/ \E c \in Callers : CompleteReturns(c)
    \/ \E c \in Callers, e \in {"exhausted"} : StreamEnds(c, e)
    \/ \E t \in AssignedTiers : \E v \in Offered(t) : AssignTier(t, v)
    \/ \E p \in UsedProviders, v \in BOOLEAN, r \in SUBSET UsedProviders :
            ToggleProvider(p, v, r)
    \/ \E v \in BOOLEAN : SetApiKey("openai", v)

SpecOverride == Init /\ [][NextOverride]_vars


\* the models handed to the registry in the registry-level specification:
\* an id and a name that are also tags of other models, a model without a
\* context window, an embedding model
RegistryModels ==
    { Model("fast", "Alpha", "ollama", {"chat"}, {"text"}, undefined),
      Model("m2", "fast", "openai", {"smart"}, {"text", "vision"}, Some(8192)),
      Model("m3", "Gamma", "ollama", {"fast", "embedding"}, {"text", "vision"},
            Some(4096)),
      Model("m4", "Delta", "openai", {"fast", "smart"}, {"text", "vision"},
            Some(128000)) }

Catalogs ==
    { c \in UNION { [1..n -> RegistryModels] : n \in 0..MaxModels } :
        \A i, j \in 1..Len(c) : c[i] = c[j] => i = j }

Criteria ==
    { ModelCriteria(tag, provider, capability, minContextWindow) :
        tag \in {undefined, Some("fast"), Some("embedding")},
        provider \in {undefined, Some("ollama")},
        capability \in {undefined, Some({}), Some({"text", "vision"})},
        minContextWindow \in {undefined, Some(8192)} }

Filters ==
    {undefined} \cup
    { Some(ModelFilter(provider, tag)) :
        provider \in {undefined, Some("ollama")},
        tag \in {undefined, Some("fast")} }

Keys == {"fast", "m3", "Gamma", "smart", "embedding", "no-such-model"}

NextRegistry ==
    \/ \E newModels \in Catalogs : UpdateModels(newModels)
    \/ \E criteria \in Criteria : Find(criteria)
    \/ \E filter \in Filters : List(filter)
    \/ \E key \in Keys : GetByNameOrTag(key)

SpecRegistry == Init /\ [][NextRegistry]_vars

NextProviders ==
    \/ \E p \in UsedProviders, v \in BOOLEAN : BeginToggle(p, v)
    \/ \E r \in SUBSET UsedProviders : EndToggle(r)
    \/ \E v \in BOOLEAN : BeginSetApiKey("openai", v)
    \/ EndSetApiKey
    \/ \E r \in SUBSET UsedProviders : ReloadModels(r)
    \/ IsReady

SpecProviders == Init /\ [][NextProviders]_vars

NextNotification ==
    \/ \E e \in FallbackEvents : CallNotifyFallback(e[1], e[2], e[3])
    \/ \E e \in ProviderErrorEvents : CallNotifyProviderError(e[1], e[2], e[3])
    \/ CallClearCache
    \/ \E m \in NotificationMode : SetFallbackNotification(m)
    \/ \E o \in BOOLEAN : SetShowOncePerSession(o)

SpecNotification == Init /\ [][NextNotification]_vars

\* the events notified when the keys are examined: fallbacks between three
\* tiers for two reasons, and errors of the registered providers' models, with
\* model ids that hold the separators the keys are built with
KeyTiers == {"fast", "balanced", "advanced"}

KeyReasons == {"tier_not_configured", "provider_error"}

KeyModels == {"llama3.2", "llama3.2:latest", "fast->balanced:tier_not_configured"}

FallbackKeyEvents ==
    { << "fallback", r, a, w >> : r \in KeyTiers, a \in KeyTiers, w \in KeyReasons }

ProviderErrorKeyEvents ==
    { << "provider-error", p, m >> : p \in UsedProviders, m \in KeyModels }

\* the key the notification manager derives for an event
KeyOf(e) ==
    IF e[1] = "fallback" THEN FallbackKey(e[2], e[3], e[4])
    ELSE ProviderErrorKey(e[2], e[3])

NextKeys ==
    \/ \E e \in FallbackKeyEvents : CallNotifyFallback(e[2], e[3], e[4])
    \/ \E e \in ProviderErrorKeyEvents, m \in AdapterErrors :
            CallNotifyProviderError(e[2], e[3], m)
    \/ \E o \in BOOLEAN : SetShowOncePerSession(o)

SpecKeys == Init /\ [][NextKeys]_vars


\* ------------------------------------------------------------------------
\* Properties of TierResolver.resolve (checked under SpecResolver)
\* ------------------------------------------------------------------------
\* resolution is the outcome of a resolve call on the present configuration
Resolved == consecutive.count > 0

\* the chain positions of the requested tier that have an assignment
ConfiguredPositions(tier) ==
    { i \in 1..Len(FALLBACK_CHAINS[tier]) :
        settings.tiers[FALLBACK_CHAINS[tier][i]] # undefined }

FirstConfigured(tier) ==
    CHOOSE i \in ConfiguredPositions(tier) :
        \A j \in ConfiguredPositions(tier) : i <= j

\* C1: when some tier of T's chain has an assignment, resolve(T) returns the
\* assignment of the first such tier in chain order, tier = that tier,
\* requestedTier = T; no fallback (and tier = T) when T itself is configured,
\* fallback with reason 'tier_not_configured' when a later chain tier is used.
C1_ResolveFirstConfigured ==
    \A T \in PerformanceTier :
        (Resolved /\ consecutive.tier = T /\ ConfiguredPositions(T) # {}) =>
            LET i == FirstConfigured(T)
                used == FALLBACK_CHAINS[T][i]
            IN  /\ resolution.ok
                /\ resolution.assignment = settings.tiers[used]
                /\ resolution.tier = used
                /\ resolution.requestedTier = T
                /\ (settings.tiers[T] # undefined =>
                        /\ resolution.tier = T
                        /\ resolution.fallbackOccurred = FALSE
                        /\ resolution.fallbackReason = "undefined")
                /\ (settings.tiers[T] = undefined =>
                        /\ resolution.tier # T
                        /\ resolution.fallbackOccurred = TRUE
                        /\ resolution.fallbackReason = "tier_not_configured")

\* a fallback to the last tier of a three-tier chain, over an unconfigured second
C1_Witness ==
    /\ Resolved
    /\ consecutive.tier = "balanced"
    /\ settings.tiers["balanced"] = undefined
    /\ settings.tiers["advanced"] = undefined
    /\ resolution.ok
    /\ resolution.tier = "fast"
    /\ resolution.fallbackOccurred

\* C2: resolve('embedding') fails whenever the embedding tier has no
\* assignment, whatever the other five tiers hold; no assignment is returned.
C2_EmbeddingNeverSubstituted ==
    (Resolved /\ consecutive.tier = "embedding"
              /\ settings.tiers["embedding"] = undefined) =>
        /\ ~resolution.ok
        /\ resolution.assignment = undefined

\* embedding requested and failed while all five chat tiers are configured
C2_Witness ==
    /\ Resolved
    /\ consecutive.tier = "embedding"
    /\ settings.tiers["embedding"] = undefined
    /\ \A t \in PerformanceTier \ {"embedding"} : settings.tiers[t] # undefined
    /\ ~resolution.ok

\* the chains as the documentation lists them (README, Performance Tiers)
DocumentedChain ==
    [ fast      |-> "fast, balanced, advanced",
      balanced  |-> "balanced, advanced, fast",
      advanced  |-> "advanced, balanced, fast",
      thinking  |-> "thinking, advanced, balanced, fast",
      code      |-> "code, advanced, balanced, fast",
      embedding |-> "embedding" ]

\* C3: when no tier of T's chain has an assignment, resolve(T) fails and the
\* failure's message names every tier of T's chain, in chain order.
C3_ExhaustedChainNamed ==
    \A T \in PerformanceTier :
        (Resolved /\ consecutive.tier = T /\ ConfiguredPositions(T) = {}) =>
            /\ ~resolution.ok
            /\ resolution.assignment = undefined
            /\ resolution.message =
                   "No model configured for tier \"" \o T \o "\" or any fallback tier. "
                   \o "Please configure at least one of: " \o DocumentedChain[T]

\* fast requested with fast, balanced and advanced unconfigured, other tiers set
C3_Witness ==
    /\ Resolved
    /\ consecutive.tier = "fast"
    /\ ConfiguredPositions("fast") = {}
    /\ settings.tiers["thinking"] # undefined
    /\ ~resolution.ok

\* C4: a resolve(T) call directly after a resolve(T) call, with no
\* configuration change in between, yields the identical outcome, and the call
\* leaves the tier configuration unchanged.
C4_ResolveIdempotent ==
    [][ /\ ( consecutive'.count >= 1 /\ consecutive' # consecutive )
              => settings' = settings
        /\ ( /\ consecutive.count >= 1
             /\ consecutive'.tier = consecutive.tier
             /\ consecutive'.count = consecutive.count + 1 )
              => resolution' = resolution ]_vars

\* two resolve calls in a row that fell back
C4_Witness ==
    /\ consecutive.count = 2
    /\ resolution.ok
    /\ resolution.fallbackOccurred

\* ------------------------------------------------------------------------
\* Properties of complete (checked under Spec)
\* ------------------------------------------------------------------------
\* the least of a non-empty set of positions
First(S) == CHOOSE i \in S : \A j \in S : i <= j

\* the places of an operation in a call's trace
At(trace, op) ==
    { i \in 1..Len(trace) : trace[i].op = op }

\* the calls made so far (a caller's latest call)
Made ==
    { c \in Callers : calls[c].pc # "idle" }

\* a step in which caller c's complete runs up to its await
CompleteStep(c) ==
    /\ calls[c].pc # "awaiting"
    /\ << calls'[c], log' >> # << calls[c], log >>

\* C5: a complete call that is given options.model finds its model by the
\* registry's getByNameOrTag alone: it never consults resolve, never lists by
\* provider and never calls notifyFallback, whatever options.tier and the tier
\* assignments are, and it touches neither the resolver nor the notification
\* manager; if the lookup finds nothing the call fails with "Model not found"
\* and no adapter is looked up or invoked.
C5_ExplicitModelBypassesTiers ==
    /\ [](\A c \in Made :
            LET call == calls[c]
            IN  (Truthy(Some(call.options[1].prompt)) /\ Truthy(call.options[1].model)) =>
                  /\ call.trace[1] = Event("getByNameOrTag", << call.options[1].model[1] >>)
                  /\ At(call.trace, "resolve") = {}
                  /\ At(call.trace, "list") = {}
                  /\ At(call.trace, "notifyFallback") = {}
                  /\ call.tierResolution = undefined
                  /\ call.notified = undefined
                  /\ (call.modelToUse = undefined) =>
                        /\ call.pc = "failed"
                        /\ call.error = "Model not found: " \o call.options[1].model[1]
                        /\ At(call.trace, "getProvider") = {}
                        /\ At(call.trace, "provider.complete") = {})
    /\ [][\A c \in Callers :
            (CompleteStep(c) /\ Truthy(calls'[c].options[1].model)) =>
                UNCHANGED << notificationVars, resolverVars, settings >>]_vars

C5_Witness ==
    \E c \in Callers :
        /\ calls[c].pc = "done"
        /\ calls[c].options[1].model = Some("gpt-4o")
        /\ calls[c].options[1].tier = Some("fast")
        /\ calls[c].result[1].model = "gpt-4o"
        /\ settings.tiers["fast"] = undefined
        /\ settings.tiers["balanced"] # undefined

\* a call whose resolve and registry lookup both succeeded and fell back
FellBack(call) ==
    /\ call.tierResolution # undefined
    /\ call.modelToUse # undefined
    /\ call.tierResolution[1].fallbackOccurred

\* C6: a complete call whose tier resolution and registry lookup succeeded
\* with a fallback calls notifyFallback(requestedTier, actualTier, reason)
\* exactly once, after resolve and the registry lookup and before the adapter
\* is looked up or its complete invoked - so the notification manager has the
\* call on record also when the provider check or the adapter then fails; a
\* call that did not fall back never calls notifyFallback and leaves the
\* notification manager as it was.
C6_FallbackNotifiedBeforeAdapter ==
    /\ [](\A c \in Made :
            LET call == calls[c]
                notifies == At(call.trace, "notifyFallback")
            IN  IF FellBack(call)
                THEN LET r == call.tierResolution[1]
                     IN  /\ Cardinality(notifies) = 1
                         /\ \A n \in notifies :
                               /\ call.trace[n].args =
                                      << r.requestedTier, r.tier, r.fallbackReason >>
                               /\ \E i \in At(call.trace, "resolve") : i < n
                               /\ \E i \in At(call.trace, "list") : i < n
                               /\ \A i \in At(call.trace, "resolve")
                                           \cup At(call.trace, "list") : i < n
                               /\ \A i \in At(call.trace, "getProvider")
                                           \cup At(call.trace, "isConfigured")
                                           \cup At(call.trace, "provider.complete")
                                           \cup At(call.trace, "notifyProviderError") : n < i
                         /\ \E i \in 1..Len(log) :
                               /\ log[i].op = "notifyFallback"
                               /\ log[i].key =
                                      FallbackKey(r.requestedTier, r.tier, r.fallbackReason)
                ELSE notifies = {})
    /\ [][\A c \in Callers :
            CompleteStep(c) =>
                IF FellBack(calls'[c])
                THEN LET r == calls'[c].tierResolution[1]
                     IN  /\ Len(log') = Len(log) + 1
                         /\ SubSeq(log', 1, Len(log)) = log
                         /\ log'[Len(log')].op = "notifyFallback"
                         /\ log'[Len(log')].key =
                                FallbackKey(r.requestedTier, r.tier, r.fallbackReason)
                ELSE UNCHANGED notificationVars]_vars

C6_Witness ==
    \E c \in Callers :
        /\ calls[c].pc = "failed"
        /\ FellBack(calls[c])
        /\ calls[c].tierResolution[1].requestedTier = "advanced"
        /\ calls[c].tierResolution[1].tier = "balanced"
        /\ At(calls[c].trace, "provider.complete") # {}
        /\ At(calls[c].trace, "notifyProviderError") # {}
        /\ Len(log) = 2
        /\ log[1].op = "notifyFallback"
        /\ log[2].op = "notifyProviderError"

\* C7: the result of a successful complete call carries requestedTier,
\* actualTier, fallbackOccurred and fallbackReason exactly when the call went
\* through tier resolution (no options.model), and then they are the
\* requestedTier, tier, fallbackOccurred and fallbackReason of the resolution
\* made for that call, whose requestedTier is options.tier or else the default
\* tier; with an explicit model none of the four fields is set.
C7_TierMetadataStamped ==
    \A c \in Callers :
        calls[c].pc = "done" =>
            LET call == calls[c]
                result == call.result[1]
            IN  /\ (call.tierResolution # undefined) <=> ~Truthy(call.options[1].model)
                /\ IF call.tierResolution # undefined
                   THEN LET r == call.tierResolution[1]
                        IN  /\ r.requestedTier =
                                  ( IF call.options[1].tier # undefined
                                    THEN call.options[1].tier[1]
                                    ELSE settings.defaultTier )
                            /\ result.requestedTier = << r.requestedTier >>
                            /\ result.actualTier = << r.tier >>
                            /\ result.fallbackOccurred = << r.fallbackOccurred >>
                            /\ result.fallbackReason =
                                  ( IF r.fallbackOccurred
                                    THEN << "tier_not_configured" >>
                                    ELSE << >> )
                   ELSE /\ result.requestedTier = << >>
                        /\ result.actualTier = << >>
                        /\ result.fallbackOccurred = << >>
                        /\ result.fallbackReason = << >>

C7_Witness ==
    \E c \in Callers :
        /\ calls[c].pc = "done"
        /\ calls[c].options[1].model = undefined
        /\ calls[c].result[1].requestedTier = << "advanced" >>
        /\ calls[c].result[1].actualTier = << "balanced" >>
        /\ calls[c].result[1].fallbackOccurred = << TRUE >>
        /\ calls[c].result[1].fallbackReason = << "tier_not_configured" >>

\* C11: a settings save that follows a tier reassignment clears the
\* notification seen-set, so that a fallback whose key was notified before the
\* change is notified again at its next occurrence: every step that changes a
\* tier assignment leaves no key of an earlier notifyFallback in
\* notifiedFallbacks.
C11_ReassignmentClearsSeenSet ==
    [][settings'.tiers # settings.tiers =>
          \A i \in 1..Len(log) :
              log[i].op = "notifyFallback" => log[i].key \notin notifiedFallbacks']_vars

\* a call whose adapter was invoked and failed
AdapterFailed(call) ==
    call.pc = "failed" /\ At(call.trace, "provider.complete") # {}

\* what holds of every call whose adapter failed, whichever provider is
\* named: one resolve and one lookup at most, one adapter invocation, then one
\* notifyProviderError carrying the model's id and the adapter's message,
\* which is the error the caller gets
AdapterFailureHandled(call, provider) ==
    /\ Cardinality(At(call.trace, "provider.complete")) = 1
    /\ Cardinality(At(call.trace, "getProvider")) = 1
    /\ Cardinality(At(call.trace, "resolve")) <= 1
    /\ Cardinality(At(call.trace, "list")) <= 1
    /\ Cardinality(At(call.trace, "notifyProviderError")) = 1
    /\ call.trace[Len(call.trace) - 1] =
          Event("provider.complete", << call.target, call.modelToUse[1].id >>)
    /\ call.trace[Len(call.trace)] =
          Event("notifyProviderError", << provider, call.modelToUse[1].id, call.error >>)
    /\ call.error \in AdapterErrors
    /\ call.result = undefined
    /\ \E i \in 1..Len(log) :
          /\ log[i].op = "notifyProviderError"
          /\ log[i].key = ProviderErrorKey(provider, call.modelToUse[1].id)

\* C16: when the adapter's complete fails, complete calls notifyProviderError
\* with the provider whose adapter failed, the model and the message, and
\* fails to its caller with that same error; the adapter is invoked once, no
\* other tier is tried, and the caller gets the error also when the
\* notification is suppressed as a repeat.
C16_AdapterFailureNotifiedAndRethrown ==
    \A c \in Made :
        AdapterFailed(calls[c]) => AdapterFailureHandled(calls[c], calls[c].target)

\* the same with the provider of the resolved model in place of the provider
\* whose adapter was invoked
AdapterFailureNamesModelProvider ==
    \A c \in Made :
        AdapterFailed(calls[c]) =>
            AdapterFailureHandled(calls[c], calls[c].modelToUse[1].provider)

\* C18: when the tier's assignment names a model that the registry does not
\* hold under the assigned provider, complete fails at once - no adapter is
\* looked up or invoked, resolve is not asked again - with a message that says
\* the provider may be disconnected and that differs from every 'no tier
\* configured' failure.
C18_MissingAssignedModelFails ==
    [][\A c \in Callers :
         ( /\ CompleteStep(c)
           /\ Truthy(Some(calls'[c].options[1].prompt))
           /\ ~Truthy(calls'[c].options[1].model) ) =>
             LET options == calls'[c].options[1]
                 tier == IF options.tier # undefined THEN options.tier[1]
                         ELSE settings.defaultTier
                 positions == { i \in 1..Len(FALLBACK_CHAINS[tier]) :
                                  settings.tiers[FALLBACK_CHAINS[tier][i]] # undefined }
             IN  positions # {} =>
                 LET assignment == settings.tiers[FALLBACK_CHAINS[tier][First(positions)]][1]
                     held == \E i \in 1..Len(models) :
                                /\ models[i].provider = assignment.provider
                                /\ models[i].id = assignment.model
                 IN  ~held =>
                       /\ calls'[c].pc = "failed"
                       /\ Cardinality(At(calls'[c].trace, "resolve")) = 1
                       /\ At(calls'[c].trace, "getProvider") = {}
                       /\ At(calls'[c].trace, "provider.complete") = {}
                       /\ calls'[c].error =
                             "Tier resolution failed: Model \"" \o assignment.model
                             \o "\" from provider \"" \o assignment.provider
                             \o "\" not found. Is the provider connected?. "
                             \o "Please configure tiers in LLM Connector settings."
                       /\ \A t \in PerformanceTier :
                             calls'[c].error #
                               TierResolutionFailed(ResolveError(t, FALLBACK_CHAINS[t]).message)]_vars

C18_Witness ==
    \E c \in Callers :
        /\ calls[c].pc = "failed"
        /\ calls[c].options[1].tier = Some("advanced")
        /\ calls[c].tierResolution # undefined
        /\ calls[c].tierResolution[1].tier = "balanced"
        /\ calls[c].modelToUse = undefined
        /\ calls[c].error = TierResolutionFailed(ModelMissing("llama3.2", "ollama"))
        /\ settings.providers["ollama"].enabled
        /\ models = << >>

\* C20: complete fails without invoking an adapter when no adapter is
\* registered under the target provider id (options.provider, else the
\* model's provider) or when the registered adapter is not configured
\* (disabled, or enabled without its credentials).
C20_UnusableProviderFails ==
    [][\A c \in Callers :
         ( /\ CompleteStep(c)
           /\ calls'[c].modelToUse # undefined ) =>
             LET options == calls'[c].options[1]
                 id == IF options.provider # undefined THEN options.provider[1]
                       ELSE calls'[c].modelToUse[1].provider
                 usable == /\ id \in Registered
                           /\ AdapterConfig(id).enabled
                           /\ validateConfig(id, AdapterConfig(id))
             IN  IF usable
                 THEN /\ calls'[c].pc = "awaiting"
                      /\ calls'[c].target = id
                 ELSE /\ calls'[c].pc = "failed"
                      /\ At(calls'[c].trace, "provider.complete") = {}
                      /\ calls'[c].error \in
                            { "Provider not found: " \o calls'[c].modelToUse[1].provider,
                              "Provider " \o calls'[c].modelToUse[1].provider
                                  \o " is not configured" }]_vars

C20_Witness ==
    \E c \in Callers :
        /\ calls[c].pc = "failed"
        /\ calls[c].options[1].model = Some("gpt-4o")
        /\ calls[c].modelToUse # undefined
        /\ calls[c].error = "Provider openai is not configured"
        /\ settings.providers["openai"].enabled
        /\ ~settings.providers["openai"].apiKey
        /\ At(calls[c].trace, "provider.complete") = {}

\* a step in which caller c's stream runs up to its delegation
StreamStep(c) ==
    /\ calls[c].pc # "streaming"
    /\ << calls'[c], log' >> # << calls[c], log >>

\* the stream call made in a step and the complete call that the same request
\* would have made in the state the step starts from agree: both fail before
\* an adapter is invoked, or both select one model and one provider and pass
\* one fallback on to the notification manager
SameSteps(streamed, completed) ==
    /\ (streamed.pc = "failed") <=> (completed.pc = "failed")
    /\ streamed.pc # "failed" =>
          /\ streamed.modelToUse = completed.modelToUse
          /\ streamed.target = completed.target
          /\ streamed.notified = completed.notified
          /\ streamed.request = completed.request

\* C17: for every request and every state of the plugin, stream fails
\* before delegating to an adapter exactly when complete fails before invoking
\* one, and otherwise selects the model and provider and passes on the
\* fallback that complete would
C17_StreamFollowsComplete ==
    [][\A c \in Callers :
         StreamStep(c) => SameSteps(calls'[c], CompleteSync(calls'[c].options[1]))]_vars

\* the same for the requests with a prompt whose adapter, if registered, is
\* configured
StreamFollowsCompleteWhenUsable ==
    [][\A c \in Callers :
         ( /\ StreamStep(c)
           /\ Truthy(Some(calls'[c].options[1].prompt))
           /\ calls'[c].pc = "streaming" => isConfigured(AdapterConfigs, calls'[c].target) ) =>
             SameSteps(calls'[c], CompleteSync(calls'[c].options[1]))]_vars

\* a tier that a request can be served from: it is assigned, its provider is
\* enabled and configured, and its model is in the registry
Usable(tier) ==
    /\ settings.tiers[tier] # undefined
    /\ LET assignment == settings.tiers[tier][1]
       IN  /\ settings.providers[assignment.provider].enabled
           /\ isConfigured(AdapterConfigs, assignment.provider)
           /\ \E i \in 1..Len(models) :
                 /\ models[i].provider = assignment.provider
                 /\ models[i].id = assignment.model

\* the positions of a tier's chain that hold a usable tier
UsablePositions(tier) ==
    { i \in 1..Len(FALLBACK_CHAINS[tier]) : Usable(FALLBACK_CHAINS[tier][i]) }

\* a tier with an assignment that the settings tab marks 'will fall back'
MarkedWillFallBack(tier) ==
    /\ settings.tiers[tier] # undefined
    /\ tierStatus(tier) \in { "Not configured - will fall back",
                              "provider unreachable - will fall back" }

\* C19: a request for a tier whose assignment the settings tab marks 'will
\* fall back' (provider disabled, or enabled with the model missing from the
\* registry) is served from the next usable tier of its chain instead of
\* failing
C19_MarkedTierFallsBack ==
    [][\A c \in Callers :
         ( /\ CompleteStep(c)
           /\ calls'[c].options[1] \in TierRequests
           /\ MarkedWillFallBack(calls'[c].options[1].tier[1])
           /\ UsablePositions(calls'[c].options[1].tier[1]) # {} ) =>
             LET tier == calls'[c].options[1].tier[1]
                 next == FALLBACK_CHAINS[tier][First(UsablePositions(tier))]
             IN  /\ calls'[c].pc = "awaiting"
                 /\ calls'[c].tierResolution[1].tier = next
                 /\ calls'[c].modelToUse[1].id = settings.tiers[next][1].model]_vars

\* what happens instead: a request for a tier marked so fails before any
\* adapter is invoked, whatever the rest of its chain holds
MarkedTierFails ==
    [][\A c \in Callers :
         ( /\ CompleteStep(c)
           /\ calls'[c].options[1] \in TierRequests
           /\ MarkedWillFallBack(calls'[c].options[1].tier[1]) ) =>
             /\ calls'[c].pc = "failed"
             /\ At(calls'[c].trace, "provider.complete") = {}]_vars

\* C21: a complete whose prompt is empty or missing fails at once with
\* "Prompt is required": nothing is resolved, looked up, notified or sent to
\* an adapter, and the resolver, the registry, the providers and the
\* notification manager with its seen-set are left as they were.
C21_EmptyPromptFailsAtOnce ==
    [][\A c \in Callers :
         (CompleteStep(c) /\ ~Truthy(Some(calls'[c].options[1].prompt))) =>
             /\ calls'[c].pc = "failed"
             /\ calls'[c].error = "Prompt is required"
             /\ calls'[c].trace = << >>
             /\ calls'[c].tierResolution = undefined
             /\ calls'[c].modelToUse = undefined
             /\ calls'[c].notified = undefined
             /\ calls'[c].request = undefined
             /\ UNCHANGED << settings, resolverVars, notificationVars, registryVars,
                             providerVars >>]_vars

\* an empty prompt is refused although the request's chain holds a usable
\* tier that it would have fallen back to
C21_Witness ==
    \E c \in Callers :
        /\ calls[c].pc = "failed"
        /\ calls[c].error = "Prompt is required"
        /\ calls[c].options[1].prompt = ""
        /\ calls[c].options[1].tier = Some("advanced")
        /\ settings.tiers["advanced"] = undefined
        /\ Usable("balanced")
        /\ notifiedFallbacks = {}

\* the events that a key stands for
EventsWithKey(key) ==
    { e \in FallbackKeyEvents \cup ProviderErrorKeyEvents : KeyOf(e) = key }

\* C22: a notification key identifies its event: every key derived by a
\* notify call, and every key in the seen-set, is the key of exactly one
\* (requestedTier, actualTier, reason) triple or (provider, model) pair - so no
\* two different triples, no two different pairs and no triple and pair share
\* a key - and a call is suppressed only after an emitted call of the same
\* operation with the same key, that is, for the same triple or pair.
C22_KeysIdentifyEvents ==
    /\ \A i \in NotifyCalls(log) : Cardinality(EventsWithKey(log[i].key)) = 1
    /\ \A key \in notifiedFallbacks : Cardinality(EventsWithKey(key)) = 1
    /\ \A j \in NotifyCalls(log) :
          log[j].suppressed =>
              \E i \in 1..(j - 1) :
                  /\ ~log[i].suppressed
                  /\ log[i].op = log[j].op
                  /\ log[i].key = log[j].key

\* an error of a model whose id holds the key's separator is notified and its
\* repeat suppressed
C22_Witness ==
    /\ Len(log) = 2
    /\ log[1].key = KeyOf(<< "provider-error", "ollama", "llama3.2:latest" >>)
    /\ ~log[1].suppressed
    /\ log[2].key = log[1].key
    /\ log[2].suppressed

\* the adapter error that a failed call's catch block was entered with
Rejection(call) ==
    call.trace[Len(call.trace)].args[3]

\* C23: a failed write of a notification never changes the outcome of
\* complete: a call that runs up to its await ends as it would have ended with
\* a notification that succeeds, and a call whose adapter fails throws the
\* adapter's error to its caller.
C23_EmissionFailureSwallowed ==
    [][\A c \in Callers :
         /\ CompleteStep(c) => calls'[c] = CompleteSync(calls'[c].options[1])
         /\ (calls[c].pc = "awaiting" /\ calls'[c].pc = "failed") =>
                calls'[c].error = Rejection(calls'[c])]_vars

\* the same for the steps whose notification, if any, wrote to every channel
\* of the mode
OutcomeKeptWhenEmitted ==
    [][\A c \in Callers :
         (log' = log \/ log'[Len(log')].suppressed
            \/ log'[Len(log')].channels = Channels(mode)) =>
             /\ CompleteStep(c) => calls'[c] = CompleteSync(calls'[c].options[1])
             /\ (calls[c].pc = "awaiting" /\ calls'[c].pc = "failed") =>
                    calls'[c].error = Rejection(calls'[c])]_vars

\* C24: with complete calls of two plugins interleaved with tier assignments
\* and registry refreshes, a call that runs up to its await is what the
\* settings and the registry of that moment determine; while it awaits the
\* adapter no update changes its model, provider, request or tier resolution;
\* and the result it returns carries the model and provider of the request
\* sent and the tier metadata resolved then, whatever the settings are by then.
C24_CallKeepsItsSnapshot ==
    [][\A c \in ConcurrentCallers :
         /\ (calls[c].pc # "awaiting" /\ calls'[c] # calls[c]) =>
                calls'[c] = CompleteSync(calls'[c].options[1])
         /\ (calls[c].pc = "awaiting" /\ calls'[c].pc = "awaiting") =>
                calls'[c] = calls[c]
         /\ (calls[c].pc = "awaiting" /\ calls'[c].pc = "done") =>
                LET result == calls'[c].result[1]
                    tierResolution == calls[c].tierResolution[1]
                IN  /\ result.model = calls[c].request[1].model[1]
                    /\ result.model = calls[c].modelToUse[1].id
                    /\ result.provider = calls[c].target
                    /\ result.requestedTier = Some(tierResolution.requestedTier)
                    /\ result.actualTier = Some(tierResolution.tier)
                    /\ result.fallbackOccurred = Some(tierResolution.fallbackOccurred)]_vars

\* a call that fell back is still awaiting its adapter after its tier was
\* assigned and the registry emptied, next to a call made after the
\* assignment that was served by that tier
C24_Witness ==
    /\ calls["plugin"].pc = "awaiting"
    /\ calls["plugin"].tierResolution[1].requestedTier = "advanced"
    /\ calls["plugin"].tierResolution[1].tier = "balanced"
    /\ calls["plugin"].tierResolution[1].fallbackOccurred
    /\ calls["other"].pc = "done"
    /\ calls["other"].result[1].requestedTier = Some("advanced")
    /\ calls["other"].result[1].actualTier = Some("advanced")
    /\ calls["other"].result[1].fallbackOccurred = Some(FALSE)
    /\ settings.tiers["advanced"] # undefined
    /\ models = << >>

\* what an adapter adds to a refresh: its list if it is enabled and
\* configured and its listModels answers, nothing otherwise
Contribution(id, reachable) ==
    IF /\ settings.providers[id].enabled
       /\ validateConfig(id, settings.providers[id])
       /\ id \in reachable
    THEN ProviderCatalog[id]
    ELSE << >>

\* C25: after a refresh the registry is the lists of the adapters that are
\* enabled and configured and whose listModels answered, one after the other
\* in registration order (ollama, openrouter, openai, anthropic); an adapter
\* that fails adds nothing and the others' models are loaded all the same.
C25_RefreshLoadsAnsweringProviders ==
    [][(lookup'.op = "refreshModels" /\ settings' = settings) =>
          models' = Contribution("ollama", lookup'.args[1])
                        \o Contribution("openrouter", lookup'.args[1])
                        \o Contribution("openai", lookup'.args[1])
                        \o Contribution("anthropic", lookup'.args[1])]_vars

\* Ollama and OpenAI are both enabled and configured, Ollama's listModels
\* failed and the registry holds OpenAI's models
C25_Witness ==
    /\ lookup.op = "refreshModels"
    /\ lookup.args = << {"openai"} >>
    /\ settings.providers["ollama"].enabled
    /\ settings.providers["openai"].enabled
    /\ settings.providers["openai"].apiKey
    /\ models = ProviderCatalog["openai"]
    /\ models # << >>

\* a refresh during which no enabled provider answers, made while the
\* registry holds the models of the saved cache
UnreachableRefresh ==
    /\ lookup'.op = "refreshModels"
    /\ settings'.providers = settings.providers
    /\ \E id \in Registered : settings.providers[id].enabled
    /\ \A id \in Registered : settings.providers[id].enabled => id \notin lookup'.args[1]
    /\ models # << >>
    /\ settings.modelCache = Some(models)

\* C26: in the cached-startup version a refresh during which the enabled
\* providers cannot be reached leaves the cached models in the registry and
\* in the saved cache.
C26_CacheSurvivesUnreachableRefresh ==
    [][UnreachableRefresh =>
          /\ models' = models
          /\ settings'.modelCache = settings.modelCache]_vars

\* what such a refresh does: it empties the registry and the saved cache
UnreachableRefreshEmptiesCache ==
    [][UnreachableRefresh =>
          /\ models' = << >>
          /\ settings'.modelCache = Some(<< >>)]_vars

\* the notifyFallback calls of the history that emitted a key
Emitted(key) ==
    { i \in 1..Len(log) : /\ log[i].op = "notifyFallback"
                           /\ log[i].key = key
                           /\ ~log[i].suppressed }

\* C27: with deduplication enabled and the seen-set never cleared, however
\* the complete and stream calls of two plugins interleave, a fallback with
\* one (requestedTier, actualTier, reason) is notified at most once: every
\* later call with that key is suppressed, and a key is in the seen-set from
\* the step of the call that emitted it.
C27_OneNotificationPerFallback ==
    /\ \A i \in 1..Len(log) :
          log[i].op = "notifyFallback" =>
              /\ Cardinality(Emitted(log[i].key)) = 1
              /\ log[i].key \in notifiedFallbacks
              /\ log[i].suppressed <=> (\E j \in 1..(i - 1) : log[j].key = log[i].key)
    /\ oncePerSession

\* a complete and a stream that fell back the same way are both in flight;
\* the first was notified and the second suppressed
C27_Witness ==
    /\ calls["plugin"].pc = "awaiting"
    /\ calls["other"].pc = "streaming"
    /\ calls["plugin"].notified # undefined
    /\ calls["other"].notified = calls["plugin"].notified
    /\ Len(log) = 2
    /\ log[1].key = log[2].key
    /\ ~log[1].suppressed
    /\ log[1].channels # {}
    /\ log[2].suppressed

\* C29: whatever is assigned, a resolve(T) that succeeds returns a tier of
\* T's chain with that tier's assignment; the embedding tier is in no chain
\* but its own, so a request for another tier is never served by the
\* embedding tier's assignment.
C29_ResolvedTierInChain ==
    (Resolved /\ resolution.ok) =>
        /\ \E i \in 1..Len(FALLBACK_CHAINS[consecutive.tier]) :
              resolution.tier = FALLBACK_CHAINS[consecutive.tier][i]
        /\ resolution.assignment = settings.tiers[resolution.tier]
        /\ \A t \in PerformanceTier \ {"embedding"} :
              \A i \in 1..Len(FALLBACK_CHAINS[t]) : FALLBACK_CHAINS[t][i] # "embedding"
        /\ consecutive.tier # "embedding" => resolution.tier # "embedding"
        /\ resolution.tier = "embedding" => consecutive.tier = "embedding"

\* thinking is served by the last tier of its chain while the embedding tier
\* and nothing before 'fast' is assigned
C29_Witness ==
    /\ Resolved
    /\ consecutive.tier = "thinking"
    /\ resolution.ok
    /\ resolution.tier = "fast"
    /\ settings.tiers["embedding"] # undefined
    /\ \A t \in {"thinking", "advanced", "balanced"} : settings.tiers[t] = undefined

\* C30: a complete or stream call that has delegated to an adapter has
\* delegated to the one registered under options.provider when the request
\* names a provider, and under the resolved model's provider otherwise; the
\* request it passed on is the caller's with the resolved model's id as model.
C30_AdapterAndModelPassedOn ==
    \A c \in Callers :
        calls[c].pc \in {"awaiting", "streaming"} =>
            LET call == calls[c]
                options == call.options[1]
                modelToUse == call.modelToUse[1]
            IN  /\ call.target = IF options.provider # undefined THEN options.provider[1]
                                  ELSE modelToUse.provider
                /\ call.target \in Registered
                /\ call.request = Some([options EXCEPT !.model = Some(modelToUse.id)])
                /\ call.trace[Len(call.trace)] =
                      Event(IF call.pc = "awaiting" THEN "provider.complete"
                            ELSE "provider.stream",
                            << call.target, modelToUse.id >>)

\* the OpenAI adapter is handed the id of a model that the registry lists
\* under Ollama only
C30_Witness ==
    \E c \in Callers :
        /\ calls[c].pc \in {"awaiting", "streaming"}
        /\ calls[c].options[1].provider = Some("openai")
        /\ calls[c].target = "openai"
        /\ calls[c].modelToUse[1].provider = "ollama"
        /\ calls[c].request[1].model = Some(calls[c].modelToUse[1].id)
        /\ \A i \in 1..Len(models) :
              models[i].id = calls[c].modelToUse[1].id => models[i].provider = "ollama"

\* ------------------------------------------------------------------------
\* Properties of the ModelRegistry (checked under SpecRegistry)
\* ------------------------------------------------------------------------
\* the models a registry operation returned
Returned ==
    CASE lookup.op = "list" -> Range(lookup.result)
      [] lookup.op \in {"find", "getByNameOrTag"} -> Range(lookup.result)
      [] OTHER -> {}

\* C12: updateModels replaces the whole catalog: list() and list({}) return
\* exactly the array most recently handed to updateModels, in its order,
\* whatever the registry held before, and no later find, list or
\* getByNameOrTag returns a model of an earlier snapshot that the current one
\* does not hold.
C12_UpdateModelsReplaces ==
    /\ ( lookup.op = "list"
           /\ lookup.args \in {undefined, Some(ModelFilter(undefined, undefined))} )
         => lookup.result = lookup.given
    /\ Returned \subseteq Range(lookup.given)
    /\ Returned \cap lookup.dropped = {}

C12_Witness ==
    /\ lookup.op = "list"
    /\ lookup.args = Some(ModelFilter(undefined, undefined))
    /\ Len(lookup.given) = 2
    /\ lookup.result = lookup.given
    /\ Cardinality(lookup.dropped) = 2

\* model m satisfies every criterion that criteria gives
Satisfies(m, criteria) ==
    /\ criteria.tag # undefined => criteria.tag[1] \in m.tags
    /\ criteria.provider # undefined => m.provider = criteria.provider[1]
    /\ criteria.capability # undefined =>
          \A cap \in criteria.capability[1] : cap \in m.capabilities
    /\ criteria.minContextWindow # undefined =>
          /\ m.contextWindow # undefined
          /\ m.contextWindow[1] >= criteria.minContextWindow[1]

\* C13: find(criteria) returns the first model, in the registry's order, that
\* satisfies every criterion given - tag among its tags, provider equal, all
\* listed capabilities present, a context window present and not smaller than
\* minContextWindow - and null when no model does; so it never returns a model
\* that violates a criterion.
C13_FindFirstMatch ==
    lookup.op = "find" =>
        LET criteria == lookup.args[1]
            hits == { i \in 1..Len(models) : Satisfies(models[i], criteria) }
        IN  /\ lookup.result = ( IF hits = {} THEN undefined
                                 ELSE Some(models[First(hits)]) )
            /\ \A m \in Range(lookup.result) : Satisfies(m, criteria)

C13_Witness ==
    /\ lookup.op = "find"
    /\ lookup.args[1].tag = Some("fast")
    /\ lookup.args[1].capability = Some({"text", "vision"})
    /\ lookup.args[1].minContextWindow = Some(8192)
    /\ Len(models) = 3
    /\ lookup.result = Some(models[3])
    /\ models[1].contextWindow = undefined
    /\ "fast" \in models[2].tags

\* C14: getByNameOrTag(key) returns the first model whose id is key if there
\* is one, otherwise the first whose name is key, otherwise the first whose
\* tags contain key, otherwise null; an id or name match anywhere in the
\* catalog wins over a tag match on an earlier model.
C14_IdThenNameThenTag ==
    lookup.op = "getByNameOrTag" =>
        LET key == lookup.args[1]
            ids == { i \in 1..Len(models) : models[i].id = key }
            names == { i \in 1..Len(models) : models[i].name = key }
            tagged == { i \in 1..Len(models) : key \in models[i].tags }
        IN  lookup.result =
              ( IF ids # {} THEN Some(models[First(ids)])
                ELSE IF names # {} THEN Some(models[First(names)])
                ELSE IF tagged # {} THEN Some(models[First(tagged)])
                ELSE undefined )

C14_Witness ==
    /\ lookup.op = "getByNameOrTag"
    /\ lookup.args[1] = "fast"
    /\ Len(models) = 3
    /\ "fast" \in models[1].tags
    /\ models[2].name = "fast"
    /\ models[3].id = "fast"
    /\ lookup.result = Some(models[3])

\* ------------------------------------------------------------------------
\* Properties of the ProviderManager (checked under SpecProviders)
\* ------------------------------------------------------------------------
\* some registered adapter is enabled and configured: its isConfigured() holds
SomeAdapterConfigured ==
    \E id \in Registered :
        AdapterConfig(id).enabled /\ validateConfig(id, AdapterConfig(id))

\* C15: after any sequence of registrations and configuration loads or
\* updates, isReady() is true exactly when some registered adapter is enabled
\* and configured (its own isConfigured() holds), and isReady changes nothing
\* but its answer.
C15_IsReadyIffConfiguredAdapter ==
    /\ [](lookup.op = "isReady" => lookup.result = << SomeAdapterConfigured >>)
    /\ [][lookup'.op = "isReady" =>
             UNCHANGED << settings, resolverVars, notificationVars, models, calls,
                          providerVars >>]_vars

\* the same, for the answers given while no settings-tab handler is suspended
\* in its save (the manager's entries and the adapters have been brought up
\* to the settings)
IsReadyWhenQuiescent ==
    (lookup.op = "isReady" /\ pending = NoPending) =>
        lookup.result = << SomeAdapterConfigured >>

\* ------------------------------------------------------------------------
\* Properties of the NotificationManager (checked under SpecNotification)
\* ------------------------------------------------------------------------
\* the notifyFallback calls with key k among the history entries i..j
FallbackCalls(k, i, j) ==
    { n \in i..j : log[n].op = "notifyFallback" /\ log[n].key = k }

\* those of the calls S that wrote to a channel
Emitting(S) == { n \in S : log[n].channels # {} }

ClearFree(i, j) == \A n \in i..j : log[n].op # "clearCache"

\* entry i is the first since the start or since a clearCache
FreshStart(i) == i = 1 \/ log[i - 1].op = "clearCache"

LoggedKeys == { log[n].key : n \in 1..Len(log) }

\* C8: under an emitting mode and with no clearCache in between, the
\* notifyFallback calls with one (requestedTier, actualTier, reason) emit
\* exactly one notification when all are made with deduplication enabled, and
\* one notification each when all are made with deduplication disabled.
C8_DedupEmitsOnce ==
    \A k \in LoggedKeys : \A i \in 1..Len(log) : \A j \in i..Len(log) :
        LET S == FallbackCalls(k, i, j)
        IN  ( /\ S # {}
              /\ ClearFree(i, j)
              /\ \A n \in S : log[n].mode # "none" ) =>
                /\ ( FreshStart(i) /\ \A n \in S : log[n].oncePerSession )
                      => Cardinality(Emitting(S)) = 1
                /\ ( \A n \in S : ~log[n].oncePerSession )
                      => Cardinality(Emitting(S)) = Cardinality(S)

\* two calls with the same triple, deduplication enabled: the second is suppressed
C8_Witness ==
    /\ Len(log) = 2
    /\ log[1].op = "notifyFallback" /\ log[2].op = "notifyFallback"
    /\ log[1].key = log[2].key
    /\ log[1].oncePerSession /\ log[2].oncePerSession
    /\ log[1].mode # "none" /\ log[2].mode # "none"
    /\ log[1].channels # {}
    /\ log[2].suppressed

\* C9: the first notifyFallback after a clearCache emits (under an emitting
\* mode) although its key was notified before the clearCache, also with
\* deduplication enabled.
C9_ClearCacheReEmits ==
    \A n \in 2..Len(log) :
        ( /\ log[n].op = "notifyFallback"
          /\ log[n - 1].op = "clearCache"
          /\ log[n].mode # "none"
          /\ \E m \in 1..(n - 2) : log[m].key = log[n].key /\ ~log[m].suppressed ) =>
            /\ ~log[n].suppressed
            /\ log[n].channels = Channels(log[n].mode)
            /\ log[n].channels # {}

\* notified, cleared, notified again with deduplication enabled throughout
C9_Witness ==
    /\ Len(log) = 3
    /\ log[1].op = "notifyFallback" /\ log[1].channels # {} /\ log[1].oncePerSession
    /\ log[2].op = "clearCache"
    /\ log[3].op = "notifyFallback" /\ log[3].key = log[1].key
    /\ log[3].oncePerSession /\ log[3].channels # {}
    /\ notifiedFallbacks = {log[1].key}

\* a notify call repeats the key of an earlier, unsuppressed call with no
\* clearCache in between
Repeats(m, n) ==
    /\ m < n
    /\ log[m].op # "clearCache" /\ log[n].op # "clearCache"
    /\ log[m].key = log[n].key
    /\ ~log[m].suppressed
    /\ ClearFree(m, n)

\* C10: no operation other than clearCache removes a key from the seen-set;
\* a preference change (saveSettings, through updatePreferences) changes the
\* mode and the deduplication flag only, so a key notified before it is still
\* suppressed after it while deduplication is enabled.
C10_OnlyClearCacheForgets ==
    /\ [][ ~CallClearCache => notifiedFallbacks \subseteq notifiedFallbacks' ]_vars
    /\ [][ (mode' # mode \/ oncePerSession' # oncePerSession)
              => (notifiedFallbacks' = notifiedFallbacks /\ log' = log) ]_vars
    /\ [] ( \A n \in 1..Len(log) : \A m \in 1..n :
               (Repeats(m, n) /\ log[n].oncePerSession) => log[n].suppressed )

\* a key notified under one mode is suppressed after the mode was changed
C10_Witness ==
    /\ Len(log) = 2
    /\ Repeats(1, 2)
    /\ log[1].mode # log[2].mode
    /\ log[1].channels # {}
    /\ log[2].mode # "none"
    /\ log[2].oncePerSession
    /\ log[2].suppressed

\* C28: every notifyFallback and notifyProviderError call that is not
\* suppressed puts its key into the seen-set, under mode 'none' and with
\* deduplication disabled as well; so until a clearCache, a call made under an
\* emitting mode with deduplication enabled is suppressed and writes nothing
\* when its event first occurred silently or with deduplication off.
C28_SilentCallsMarkTheirKey ==
    /\ \A n \in 1..Len(log) :
          (log[n].op # "clearCache" /\ ~log[n].suppressed /\ ClearFree(n, Len(log))) =>
              log[n].key \in notifiedFallbacks
    /\ \A n \in 1..Len(log) : \A m \in 1..n :
          ( /\ Repeats(m, n)
            /\ log[m].mode = "none" \/ ~log[m].oncePerSession
            /\ log[n].oncePerSession ) =>
              /\ log[n].suppressed
              /\ log[n].channels = {}

\* an event that occurred under mode 'none' is suppressed after the mode was
\* switched to an emitting one
C28_Witness ==
    /\ Len(log) = 2
    /\ Repeats(1, 2)
    /\ log[1].mode = "none"
    /\ log[1].channels = {}
    /\ log[2].mode = "both"
    /\ log[2].oncePerSession
    /\ log[2].suppressed
    /\ log[2].key \in notifiedFallbacks

====
